---- MODULE Spec2Model ----
(***************************************************************************)
(* Fixture store, calendar import and result reconciliation of the rugby   *)
(* predictions backend.  The repository holds several generations of the   *)
(* importer and of updateResultsFromSources side by side; a behaviour of   *)
(* Spec runs one importer and one reconciler, chosen in Init, so that      *)
(* every trace is the behaviour of one coherent build.                     *)
(*                                                                         *)
(* Team names are sequences of one-character strings, kickoffs and page    *)
(* dates are hours on one clock, JS null is Null (names) or NullNum.       *)
(***************************************************************************)
EXTENDS Integers, Sequences, FiniteSets, TLC

VARIABLES
    matches,      \* matches.json: sequence of fixtures
    predictions,  \* predictions.json: sequence of predictions
    importer,     \* which importMatches / refresh implementation is deployed
    reconciler,   \* which updateResultsFromSources implementation is deployed
    last,         \* observation of the last completed operation
    pc,           \* per reconcile invocation: position in updateResultsFromSources
    loc,          \* per reconcile invocation: its in-memory matches, predictions, scraped
    scorer,       \* which scoring code rates the predictions ("none": the reconciler's own)
    arg,          \* what the last fetch or pure helper was called with
    res,          \* what it gave back
    now           \* the server's clock, in hours

vars == <<matches, predictions, importer, reconciler, last, pc, loc, scorer, arg, res, now>>

----------------------------------------------------------------------------
(* Bounds *)

MaxFeed == 1      \* calendar entries per imported feed
MaxScrape == 1    \* rows per scrape
MaxStore == 2     \* fixtures kept in the store by the appending importers
MaxId == 2        \* range of the clock-and-random fixture ids
MaxMargin == 2    \* largest margin a user predicts
MaxPieces == 3    \* pieces a feed title is put together from
MaxEntries == 2   \* entries of an alias table

(* Program constants, in hours *)
DedupToleranceHours == 48
ScrapeToleranceHours == 36
PointsWinner == 3
PointsExact == 3
PointsCorrect == 2

----------------------------------------------------------------------------
(* Values *)

Null == <<"null">>      \* JS null / undefined where a name is expected
NullNum == -1           \* JS null / undefined where a number is expected
DrawStr == <<"d", "r", "a", "w">>

TeamA == <<"A">>
TeamALower == <<"a">>
TeamB == <<"B">>
TeamC == <<"C">>

NoResult == [winner |-> Null, margin |-> NullNum]

Comps == {1}
Kickoffs == {0, 30, 60}
FeedPairs == {<<TeamA, TeamB>>, <<TeamB, TeamA>>, <<TeamB, TeamC>>}
ScrapePairs == {<<TeamA, TeamB>>, <<TeamB, TeamA>>, <<TeamALower, TeamB>>, <<TeamB, TeamC>>}
ScorePairs == {<<2, 1>>, <<1, 2>>, <<1, 1>>}
PageDates == {0}

\* a calendar entry after the title has been split into its two sides
FeedEntries == {[teamA |-> p[1], teamB |-> p[2], start |-> k] : p \in FeedPairs, k \in Kickoffs}

\* a completed row of the scores page
ScrapeRows == {[date |-> d, t1 |-> p[1], t2 |-> p[2], s1 |-> s[1], s2 |-> s[2]] :
                  d \in PageDates, p \in ScrapePairs, s \in ScorePairs}

SeqsUpTo(S, n) == UNION {[1..k -> S] : k \in 0..n}

Feeds == SeqsUpTo(FeedEntries, MaxFeed)
Scrapes == SeqsUpTo(ScrapeRows, MaxScrape)
Ids == 1..MaxId

----------------------------------------------------------------------------
(* String helpers *)

ToLowerChar(c) ==
    CASE c = "A" -> "a"
      [] c = "B" -> "b"
      [] c = "C" -> "c"
      [] c = "D" -> "d"
      [] c = "T" -> "t"
      [] c = "U" -> "u"
      [] c = "R" -> "r"
      [] c = "P" -> "p"
      [] c = "E" -> "e"
      [] c = "M" -> "m"
      [] OTHER -> c

ToLowerCase(s) == [i \in DOMAIN s |-> ToLowerChar(s[i])]

LowerAZ == {"a", "b", "c", "d", "r", "t", "w"}
Digits == {"0", "1", "2"}

\* s.replace(/[^...]/g, ""): keep the characters of s that are in S
RECURSIVE Keep(_, _)
Keep(s, S) ==
    IF s = <<>> THEN <<>>
    ELSE IF Head(s) \in S THEN <<Head(s)>> \o Keep(Tail(s), S)
         ELSE Keep(Tail(s), S)

AbsDiff(a, b) == IF a >= b THEN a - b ELSE b - a

\* String(s || "")
StrOrEmpty(s) == IF s = Null THEN <<>> ELSE s

\* resultsUpdater.cjs normalizeTeam: lowercase, keep [a-z0-9]
normalizeTeam(s) == Keep(ToLowerCase(StrOrEmpty(s)), LowerAZ \cup Digits)

sameTeams(a1, a2, b1, b2) ==
    LET A == normalizeTeam(a1)
        B == normalizeTeam(a2)
        X == normalizeTeam(b1)
        Y == normalizeTeam(b2)
    IN (A = X /\ B = Y) \/ (A = Y /\ B = X)

\* part_004 normalize: lowercase, drop whitespace, keep [a-z] only
normalize004(name) == Keep(ToLowerCase(StrOrEmpty(name)), LowerAZ)

\* String.prototype.trim
RECURSIVE TrimLeft(_)
TrimLeft(s) == IF s # <<>> /\ Head(s) = " " THEN TrimLeft(Tail(s)) ELSE s

RECURSIVE TrimRight(_)
TrimRight(s) ==
    IF s # <<>> /\ s[Len(s)] = " " THEN TrimRight(SubSeq(s, 1, Len(s) - 1)) ELSE s

Trim(s) == TrimRight(TrimLeft(s))

\* team-aliases data: official name -> alternate spellings, in insertion order
teamAliases == << [official |-> TeamA, aliases |-> <<TeamALower>>] >>

SeqToSet(q) == {q[i] : i \in DOMAIN q}

\* part_005 normalizeTeamName: first table entry whose official name or one of
\* whose aliases equals the trimmed name, case-insensitively; else the trimmed name
RECURSIVE normalizeTeamNameOver(_, _, _)
normalizeTeamNameOver(table, name, k) ==
    IF k > Len(table) THEN name
    ELSE LET e == table[k]
         IN IF ToLowerCase(e.official) = ToLowerCase(name) THEN e.official
            ELSE IF \E a \in SeqToSet(e.aliases) : ToLowerCase(a) = ToLowerCase(name)
                 THEN e.official
                 ELSE normalizeTeamNameOver(table, name, k + 1)

normalizeTeamNameFrom(name, k) == normalizeTeamNameOver(teamAliases, name, k)

normalizeTeamName(rawName) == normalizeTeamNameFrom(Trim(rawName), 1)

\* teamAliases[name] || [name]   (resultsUpdater.cjs:170)
aliasesOf(name) ==
    IF \E k \in DOMAIN teamAliases : teamAliases[k].official = name
    THEN SeqToSet(teamAliases[CHOOSE k \in DOMAIN teamAliases : teamAliases[k].official = name].aliases)
    ELSE {name}

----------------------------------------------------------------------------
(* Result scraper: what each generation of the fetcher makes of a completed row *)

\* resultsUpdater.cjs fetchBBCResults: a draw is winner null, margin 0
fetchBBCResults(row) ==
    [date |-> row.date, teamA |-> row.t1, teamB |-> row.t2,
     winner |-> IF row.s1 > row.s2 THEN row.t1 ELSE IF row.s2 > row.s1 THEN row.t2 ELSE Null,
     margin |-> IF row.s1 > row.s2 THEN row.s1 - row.s2
                ELSE IF row.s2 > row.s1 THEN row.s2 - row.s1 ELSE 0]

\* resultsUpdater.cjs / teamAliases.js fetchBBCResultsForDate: a draw is winner "draw"
fetchBBCResultsForDate(row) ==
    [date |-> NullNum, teamA |-> row.t1, teamB |-> row.t2,
     winner |-> IF row.s1 > row.s2 THEN row.t1 ELSE IF row.s2 > row.s1 THEN row.t2 ELSE DrawStr,
     margin |-> AbsDiff(row.s1, row.s2)]

\* part_004 fetchBBCResults: a draw is winner null, margin null
fetchBBCResults004(row) ==
    [date |-> NullNum, teamA |-> row.t1, teamB |-> row.t2,
     winner |-> IF row.s1 = row.s2 THEN Null ELSE IF row.s1 > row.s2 THEN row.t1 ELSE row.t2,
     margin |-> IF row.s1 = row.s2 THEN NullNum ELSE AbsDiff(row.s1, row.s2)]

----------------------------------------------------------------------------
(* Reconciler generations.  Each takes the loaded fixtures and predictions and
   the scraped records and yields the lists it ends with, the count it
   returns and whether it writes the files. *)

Outcome(ms, ps, n, w) == [matches |-> ms, predictions |-> ps, updated |-> n, wrote |-> w]

\* p.winner || p.predictedWinner
PickedWinner(p) == IF p.winner # Null /\ p.winner # <<>> THEN p.winner ELSE p.predictedWinner

\* resultsUpdater.cjs:354-360: the fixtures record r is looked up against
cjsMatches(m, r) ==
    /\ m.kickoff # NullNum /\ m.teamA # Null /\ m.teamB # Null
    /\ AbsDiff(m.kickoff, r.date) <= ScrapeToleranceHours
    /\ sameTeams(m.teamA, m.teamB, r.teamA, r.teamB)

\* cjsAttaches without the fixture lookup: a record is attached to any open fixture
cjsAttachesAnyFixture(m, r) ==
    /\ ~(m.result.winner # Null)
    /\ r.winner # Null

\* resultsUpdater.cjs:354-366: the guards under which record r is attached to fixture m
cjsAttaches(m, r) ==
    /\ cjsMatches(m, r)
    /\ ~(m.result.winner # Null)
    /\ r.winner # Null

\* resultsUpdater.cjs:373
cjsPoints(p, newWinner) ==
    IF normalizeTeam(PickedWinner(p)) = normalizeTeam(newWinner) THEN PointsWinner ELSE 0

RECURSIVE cjsLoop(_, _, _, _)
cjsLoop(ms, ps, n, rs) ==
    IF rs = <<>> THEN Outcome(ms, ps, n, n > 0)
    ELSE LET r == Head(rs)
             hit == {i \in DOMAIN ms : cjsAttaches(ms[i], r)}
             hitIds == {ms[i].id : i \in hit}
             ms2 == [i \in DOMAIN ms |->
                       IF i \in hit
                       THEN [ms[i] EXCEPT !.result = [winner |-> r.winner, margin |-> r.margin]]
                       ELSE ms[i]]
             ps2 == [j \in DOMAIN ps |->
                       IF ps[j].matchId \in hitIds
                       THEN [ps[j] EXCEPT !.points = cjsPoints(ps[j], r.winner)]
                       ELSE ps[j]]
         IN cjsLoop(ms2, ps2, n + Cardinality(hit), Tail(rs))

\* resultsUpdater.cjs:323-392
updateResultsFromSourcesCJS(ms, ps, scraped) ==
    IF scraped = <<>> THEN Outcome(ms, ps, 0, FALSE)
    ELSE cjsLoop(ms, ps, 0, scraped)

\* Array.prototype.find: index of the first element satisfying ok, 0 when none
FirstIndex(ms, okSet) == IF okSet = {} THEN 0 ELSE CHOOSE i \in okSet : \A j \in okSet : i <= j

\* the last index of okSet, as new Map(entries) keeps the last entry of a key
LastIndex(ms, okSet) ==
    IF okSet = {} THEN 0 ELSE CHOOSE i \in okSet : \A k \in okSet : k <= i

\* resultsUpdater.cjs:168-176
esmMatches(m, r) ==
    LET teams == {ToLowerCase(m.teamA), ToLowerCase(m.teamB)}
    IN /\ \E a \in aliasesOf(r.teamA) : ToLowerCase(a) \in teams
       /\ \E b \in aliasesOf(r.teamB) : ToLowerCase(b) \in teams

RECURSIVE esmLoop(_, _, _, _)
esmLoop(ms, ps, n, rs) ==
    IF rs = <<>> THEN Outcome(ms, ps, n, TRUE)
    ELSE LET r == Head(rs)
             i == FirstIndex(ms, {k \in DOMAIN ms : esmMatches(ms[k], r)})
         IN IF i = 0 THEN esmLoop(ms, ps, n, Tail(rs))
            ELSE esmLoop([ms EXCEPT ![i].result = [winner |-> r.winner, margin |-> r.margin]],
                         ps, n + 1, Tail(rs))

\* resultsUpdater.cjs:126-191
updateResultsFromSourcesESM(ms, ps, scraped) ==
    IF scraped = <<>> \/ ms = <<>> THEN Outcome(ms, ps, 0, FALSE)
    ELSE esmLoop(ms, ps, 0, scraped)

\* teamAliases.js:149-160
aliasMatches(m, r) ==
    LET normA == normalizeTeamName(r.teamA)
        normB == normalizeTeamName(r.teamB)
        localA == normalizeTeamName(m.teamA)
        localB == normalizeTeamName(m.teamB)
    IN (normA = localA /\ normB = localB) \/ (normA = localB /\ normB = localA)

RECURSIVE aliasLoop(_, _, _, _)
aliasLoop(ms, ps, n, rs) ==
    IF rs = <<>> THEN Outcome(ms, ps, n, TRUE)
    ELSE LET r == Head(rs)
             i == FirstIndex(ms, {k \in DOMAIN ms : aliasMatches(ms[k], r)})
         IN IF i = 0 THEN aliasLoop(ms, ps, n, Tail(rs))
            ELSE aliasLoop([ms EXCEPT ![i].result =
                                [winner |-> normalizeTeamName(r.winner), margin |-> r.margin]],
                           ps, n + 1, Tail(rs))

\* teamAliases.js:110-178
updateResultsFromSourcesAlias(ms, ps, scraped) ==
    IF scraped = <<>> \/ ms = <<>> THEN Outcome(ms, ps, 0, FALSE)
    ELSE aliasLoop(ms, ps, 0, scraped)

\* part_004:168-172
matches004(m, r) ==
    normalize004(m.teamA) = normalize004(r.teamA) /\ normalize004(m.teamB) = normalize004(r.teamB)

RECURSIVE loop004(_, _, _, _)
loop004(ms, ps, n, rs) ==
    IF rs = <<>> THEN Outcome(ms, ps, n, n > 0)
    ELSE LET r == Head(rs)
             i == FirstIndex(ms, {k \in DOMAIN ms : matches004(ms[k], r)})
         IN IF i # 0 /\ r.winner # Null /\ ms[i].result.winner = Null
            THEN loop004([ms EXCEPT ![i].result = [winner |-> r.winner, margin |-> r.margin]],
                         [j \in DOMAIN ps |->
                            IF ps[j].matchId = ms[i].id
                            THEN [ps[j] EXCEPT !.points =
                                     IF ps[j].winner = r.winner THEN PointsWinner ELSE 0]
                            ELSE ps[j]],
                         n + 1, Tail(rs))
            ELSE loop004(ms, ps, n, Tail(rs))

\* part_004:142-201
updateResultsFromSources004(ms, ps, scraped) == loop004(ms, ps, 0, scraped)

\* scrape-statbunker.mjs:163-168 and part_003:114-119: lowercase, keep [a-z0-9]
normalizeName(s) == Keep(ToLowerCase(StrOrEmpty(s)), LowerAZ \cup Digits)

\* part_003:121-124: the calendar day of a time
ymd(t) == t \div 24

\* scrape-statbunker.mjs fetchBBCResults: no date, a draw is winner null, margin 0
fetchBBCResultsStatbunker(row) ==
    [date |-> NullNum, teamA |-> row.t1, teamB |-> row.t2,
     winner |-> IF row.s1 > row.s2 THEN row.t1 ELSE IF row.s2 > row.s1 THEN row.t2 ELSE Null,
     margin |-> AbsDiff(row.s1, row.s2)]

\* part_003 fetchBBCResults: the page's day, a draw is winner null, margin null
fetchBBCResults003(row) ==
    [date |-> ymd(row.date), teamA |-> row.t1, teamB |-> row.t2,
     winner |-> IF row.s1 > row.s2 THEN row.t1 ELSE IF row.s2 > row.s1 THEN row.t2 ELSE Null,
     margin |-> IF row.s1 = row.s2 THEN NullNum ELSE AbsDiff(row.s1, row.s2)]

\* scrape-statbunker.mjs:297-303, 311: fixture m is stored under both orders of
\* its teams, and record r is looked up by its own order
statbunkerMatches(m, r) ==
    \/ normalizeName(m.teamA) = normalizeName(r.teamA) /\ normalizeName(m.teamB) = normalizeName(r.teamB)
    \/ normalizeName(m.teamB) = normalizeName(r.teamA) /\ normalizeName(m.teamA) = normalizeName(r.teamB)

RECURSIVE statbunkerLoop(_, _, _, _)
statbunkerLoop(ms, ps, n, rs) ==
    IF rs = <<>> THEN Outcome(ms, ps, n, n > 0)
    ELSE LET r == Head(rs)
             i == LastIndex(ms, {k \in DOMAIN ms : statbunkerMatches(ms[k], r)})
         IN IF r.winner # Null /\ r.winner # <<>> /\ i # 0 /\ ms[i].result.winner = Null
            THEN statbunkerLoop([ms EXCEPT ![i].result = [winner |-> r.winner, margin |-> r.margin]],
                                [j \in DOMAIN ps |->
                                   IF ps[j].matchId = ms[i].id
                                   THEN [ps[j] EXCEPT !.points =
                                            IF ps[j].predictedWinner = r.winner
                                            THEN PointsWinner ELSE 0]
                                   ELSE ps[j]],
                                n + 1, Tail(rs))
            ELSE statbunkerLoop(ms, ps, n, Tail(rs))

\* scrape-statbunker.mjs:279-344
updateResultsFromSourcesStatbunker(ms, ps, scraped) == statbunkerLoop(ms, ps, 0, scraped)

\* part_003:225-245: fixture m is stored under its teams in order and its
\* kickoff day; record r is looked up in its order, then reversed
matches003(m, r) ==
    /\ ymd(m.kickoff) = r.date
    /\ \/ normalizeName(m.teamA) = normalizeName(r.teamA) /\ normalizeName(m.teamB) = normalizeName(r.teamB)
       \/ normalizeName(m.teamB) = normalizeName(r.teamA) /\ normalizeName(m.teamA) = normalizeName(r.teamB)

lookup003(ms, r) ==
    LET direct == {k \in DOMAIN ms :
                      /\ ymd(ms[k].kickoff) = r.date
                      /\ normalizeName(ms[k].teamA) = normalizeName(r.teamA)
                      /\ normalizeName(ms[k].teamB) = normalizeName(r.teamB)}
        reversed == {k \in DOMAIN ms :
                      /\ ymd(ms[k].kickoff) = r.date
                      /\ normalizeName(ms[k].teamA) = normalizeName(r.teamB)
                      /\ normalizeName(ms[k].teamB) = normalizeName(r.teamA)}
    IN IF direct # {} THEN LastIndex(ms, direct) ELSE LastIndex(ms, reversed)

RECURSIVE loop003(_, _, _, _)
loop003(ms, ps, n, rs) ==
    IF rs = <<>> THEN Outcome(ms, ps, n, n > 0)
    ELSE LET r == Head(rs)
             i == lookup003(ms, r)
         IN IF r.winner # Null /\ r.winner # <<>> /\ i # 0 /\ ms[i].result.winner = Null
            THEN loop003([ms EXCEPT ![i].result = [winner |-> r.winner, margin |-> r.margin]],
                         [j \in DOMAIN ps |->
                            IF ps[j].matchId = ms[i].id
                            THEN [ps[j] EXCEPT !.points =
                                     IF /\ ps[j].predictedWinner # Null
                                        /\ ps[j].predictedWinner # <<>>
                                        /\ normalizeName(ps[j].predictedWinner) = normalizeName(r.winner)
                                     THEN PointsWinner ELSE 0]
                            ELSE ps[j]],
                         n + 1, Tail(rs))
            ELSE loop003(ms, ps, n, Tail(rs))

\* part_003:209-284
updateResultsFromSources003(ms, ps, scraped) == loop003(ms, ps, 0, scraped)

Reconcilers == {"cjs", "esm", "alias", "p004"}
AllReconcilers == Reconcilers \cup {"statbunker", "p003"}

\* the scraper of each generation applied to the rows of the page
Scraped(v, rows) ==
    [i \in DOMAIN rows |->
        CASE v = "cjs" -> fetchBBCResults(rows[i])
          [] v = "p004" -> fetchBBCResults004(rows[i])
          [] v = "statbunker" -> fetchBBCResultsStatbunker(rows[i])
          [] v = "p003" -> fetchBBCResults003(rows[i])
          [] OTHER -> fetchBBCResultsForDate(rows[i])]

\* the fixture lookup of each generation: does record r find fixture m
TeamsMatch(v, m, r) ==
    CASE v = "cjs" -> cjsMatches(m, r)
      [] v = "esm" -> esmMatches(m, r)
      [] v = "alias" -> aliasMatches(m, r)
      [] v = "statbunker" -> statbunkerMatches(m, r)
      [] v = "p003" -> matches003(m, r)
      [] OTHER -> matches004(m, r)

Reconcile(v, ms, ps, rows) ==
    CASE v = "cjs" -> updateResultsFromSourcesCJS(ms, ps, Scraped(v, rows))
      [] v = "esm" -> updateResultsFromSourcesESM(ms, ps, Scraped(v, rows))
      [] v = "alias" -> updateResultsFromSourcesAlias(ms, ps, Scraped(v, rows))
      [] v = "statbunker" -> updateResultsFromSourcesStatbunker(ms, ps, Scraped(v, rows))
      [] v = "p003" -> updateResultsFromSources003(ms, ps, Scraped(v, rows))
      [] OTHER -> updateResultsFromSources004(ms, ps, Scraped(v, rows))

----------------------------------------------------------------------------
(* Calendar importer generations.  Each takes the stored fixtures, the
   competition, the entries of its feed and the ids drawn for new fixtures and
   yields the list it ends with and the counts it reports. *)

Imported(ms, a, u, w) == [matches |-> ms, added |-> a, updated |-> u, wrote |-> w]

NewFixture(id, comp, e) ==
    [id |-> id, competitionId |-> comp, teamA |-> e.teamA, teamB |-> e.teamB,
     kickoff |-> e.start, result |-> NoResult]

\* server.js:218-272 (and the route at 723-803): the competition's fixtures are
\* dropped and replaced by the feed's entries, each with a fresh id and no result
refreshCompetitionById(ms, comp, feed, ids) ==
    LET filtered == SelectSeq(ms, LAMBDA m : m.competitionId # comp)
        newMatches == [i \in DOMAIN feed |-> NewFixture(ids[i], comp, feed[i])]
    IN Imported(filtered \o newMatches, Len(feed), 0, TRUE)

MaxOf(S) == CHOOSE x \in S : \A y \in S : y <= x

\* server.js:201,205: competition | kickoff | sorted team pair
upsertKey(m) == <<m.competitionId, m.kickoff, {m.teamA, m.teamB}>>

RECURSIVE upsertLoop(_, _, _)
upsertLoop(ms, comp, feed) ==
    IF feed = <<>> THEN ms
    ELSE LET m == NewFixture(0, comp, Head(feed))
             seen == {upsertKey(ms[i]) : i \in DOMAIN ms}
             id == IF ms = <<>> THEN 1 ELSE MaxOf({ms[i].id : i \in DOMAIN ms}) + 1
         IN IF upsertKey(m) \notin seen
            THEN upsertLoop(Append(ms, [m EXCEPT !.id = id]), comp, Tail(feed))
            ELSE upsertLoop(ms, comp, Tail(feed))

\* server.js:196-216: returns the size of the store
upsertMatchesForCompetition(ms, comp, feed, ids) ==
    LET out == upsertLoop(ms, comp, feed)
    IN Imported(out, Len(out), 0, TRUE)

\* part_013:325-330: same competition, same teams in the same order, kickoff within 48h
existing013(m, comp, e) ==
    /\ m.competitionId = comp
    /\ m.teamA = e.teamA /\ m.teamB = e.teamB
    /\ IF m.kickoff = NullNum \/ e.start = NullNum
       THEN m.kickoff = e.start       \* new Date(null) is the epoch
       ELSE AbsDiff(m.kickoff, e.start) < DedupToleranceHours

RECURSIVE importLoop013(_, _, _, _, _, _)
importLoop013(ms, comp, feed, ids, a, u) ==
    IF feed = <<>> THEN Imported(ms, a, u, TRUE)
    ELSE LET e == Head(feed)
             i == FirstIndex(ms, {k \in DOMAIN ms : existing013(ms[k], comp, e)})
         IN IF i # 0
            THEN importLoop013([ms EXCEPT ![i].kickoff = e.start], comp, Tail(feed), Tail(ids), a, u + 1)
            ELSE importLoop013(Append(ms, NewFixture(Head(ids), comp, e)), comp, Tail(feed),
                               Tail(ids), a + 1, u)

\* part_013:298-351
importMatchesFromICS013(ms, comp, feed, ids) == importLoop013(ms, comp, feed, ids, 0, 0)

\* part_008:172-179: same competition, same teams in either order, kickoff within 48h
isDuplicate008(m, comp, e) ==
    /\ m.competitionId = comp
    /\ \/ (m.teamA = e.teamA /\ m.teamB = e.teamB)
       \/ (m.teamA = e.teamB /\ m.teamB = e.teamA)
    /\ AbsDiff(m.kickoff, e.start) < DedupToleranceHours

RECURSIVE refreshLoop008(_, _, _, _)
refreshLoop008(ms, comp, feed, a) ==
    IF feed = <<>> THEN Imported(ms, a, 0, TRUE)
    ELSE LET e == Head(feed)
         IN IF \E k \in DOMAIN ms : isDuplicate008(ms[k], comp, e)
            THEN refreshLoop008(ms, comp, Tail(feed), a)
            ELSE refreshLoop008(Append(ms, NewFixture(Len(ms) + 1, comp, e)), comp, Tail(feed), a + 1)

\* part_008:141-200
refresh008(ms, comp, feed, ids) == refreshLoop008(ms, comp, feed, 0)

\* competitionUtils.js:97-167: the merge happens on a private copy and the call
\* saveJSON(matchesFile, matches) names a binding that does not exist, so the
\* import rejects before anything is written
importMatchesFromICS(ms, comp, feed, ids) == Imported(ms, NullNum, NullNum, FALSE)

Importers == {"refreshCompetitionById", "upsert", "p013", "p008", "competitionUtils"}

ImportFeed(v, ms, comp, feed, ids) ==
    CASE v = "refreshCompetitionById" -> refreshCompetitionById(ms, comp, feed, ids)
      [] v = "upsert" -> upsertMatchesForCompetition(ms, comp, feed, ids)
      [] v = "p013" -> importMatchesFromICS013(ms, comp, feed, ids)
      [] v = "p008" -> refresh008(ms, comp, feed, ids)
      [] OTHER -> importMatchesFromICS(ms, comp, feed, ids)

\* what the caller reads as the number of fixtures added
ReportedAdded(v, out) == out.added

----------------------------------------------------------------------------
(* The store under one importer and one reconciler *)

Procs == {"admin", "cron"}

Prediction(u, mid, w, pw, mg) ==
    [userId |-> u, matchId |-> mid, winner |-> w, predictedWinner |-> pw,
     margin |-> mg, points |-> NullNum]

\* one prediction as POST /api/predictions of server.js stores it (predictedWinner)
\* and one as the older route stores it (winner)
InitPredictions == << Prediction(1, 1, Null, TeamA, 1), Prediction(2, 1, TeamB, Null, 1) >>

\* every generation of updateResultsFromSources returns the bare count of
\* updated fixtures: its output carries no list of unmatched records
UnmatchedInOutput(v, out) == <<>>

Observed(op, comp, ret, hit, unmatched, reported) ==
    [op |-> op, comp |-> comp, ret |-> ret, hit |-> hit, unmatched |-> unmatched,
     reported |-> reported]

NoLast == Observed("none", 0, 0, {}, 0, <<>>)
IdleLoc == [matches |-> <<>>, predictions |-> <<>>, rows |-> <<>>]

Init ==
    /\ matches = <<>>
    /\ predictions = InitPredictions
    /\ importer \in Importers
    /\ reconciler \in Reconcilers
    /\ last = NoLast
    /\ pc = [p \in Procs |-> "idle"]
    /\ loc = [p \in Procs |-> IdleLoc]
    /\ scorer = "none"
    /\ arg = <<>>
    /\ res = <<>>
    /\ now = 0

\* a calendar import of competition comp, run to completion
Import(comp, feed, ids) ==
    LET out == ImportFeed(importer, matches, comp, feed, ids)
    IN /\ Len(out.matches) <= MaxStore
       /\ matches' = IF out.wrote THEN out.matches ELSE matches
       /\ last' = Observed("import", comp, ReportedAdded(importer, out), {}, 0, <<>>)
       /\ UNCHANGED <<predictions, importer, reconciler, pc, loc, scorer, arg, res, now>>

\* one reconcile run with nothing else in between, on the rows the pages show
ReconcileRun(rows) ==
    LET out == Reconcile(reconciler, matches, predictions, rows)
        recs == Scraped(reconciler, rows)
    IN /\ matches' = IF out.wrote THEN out.matches ELSE matches
       /\ predictions' = IF out.wrote THEN out.predictions ELSE predictions
       /\ last' = Observed("reconcile", 0, out.updated,
                            {i \in DOMAIN matches :
                               \E k \in DOMAIN recs : TeamsMatch(reconciler, matches[i], recs[k])},
                            Cardinality({k \in DOMAIN recs :
                               \A i \in DOMAIN matches : ~TeamsMatch(reconciler, matches[i], recs[k])}),
                            UnmatchedInOutput(reconciler, out))
       /\ UNCHANGED <<importer, reconciler, pc, loc, scorer, arg, res, now>>

Next ==
    \/ \E comp \in Comps, feed \in Feeds : \E ids \in [DOMAIN feed -> Ids] : Import(comp, feed, ids)
    \/ \E rows \in Scrapes : ReconcileRun(rows)

Spec == Init /\ [][Next]_vars

----------------------------------------------------------------------------
(* The reconciler alone, on a store that an import has filled *)

FixtureAB == [teamA |-> TeamA, teamB |-> TeamB, start |-> 0]
FixtureBC == [teamA |-> TeamB, teamB |-> TeamC, start |-> 0]
FixtureBALate == [teamA |-> TeamB, teamB |-> TeamA, start |-> 60]
FixtureABDrift == [teamA |-> TeamA, teamB |-> TeamB, start |-> 30]

SeedFeeds == { <<FixtureAB>>, <<FixtureAB, FixtureBC>>, <<FixtureBALate, FixtureAB>>,
               <<FixtureAB, FixtureABDrift>> }

InitReconcile ==
    /\ \E feed \in SeedFeeds :
          matches = refreshCompetitionById(<<>>, 1, feed, [i \in DOMAIN feed |-> i]).matches
    /\ predictions = InitPredictions
    /\ importer = "refreshCompetitionById"
    /\ reconciler \in Reconcilers
    /\ last = NoLast
    /\ pc = [p \in Procs |-> "idle"]
    /\ loc = [p \in Procs |-> IdleLoc]
    /\ scorer = "none"
    /\ arg = <<>>
    /\ res = <<>>
    /\ now = 0

NextReconcile == \E rows \in Scrapes : ReconcileRun(rows)

SpecReconcile == InitReconcile /\ [][NextReconcile]_vars

\* the same stores, with the later of two fixtures of one pair stored first
\* and with the return fixture alone as well, under every generation of the
\* reconciler
LookupFeeds == SeedFeeds \cup { <<FixtureABDrift, FixtureAB>>, <<FixtureBALate>> }

InitLookup ==
    /\ \E feed \in LookupFeeds :
          matches = refreshCompetitionById(<<>>, 1, feed, [i \in DOMAIN feed |-> i]).matches
    /\ predictions = InitPredictions
    /\ importer = "refreshCompetitionById"
    /\ reconciler \in AllReconcilers
    /\ last = NoLast
    /\ pc = [p \in Procs |-> "idle"]
    /\ loc = [p \in Procs |-> IdleLoc]
    /\ scorer = "none"
    /\ arg = <<>>
    /\ res = <<>>
    /\ now = 0

NextLookup == \E rows \in Scrapes : ReconcileRun(rows)

SpecLookup == InitLookup /\ [][NextLookup]_vars

----------------------------------------------------------------------------
(* Scoring: the predictions of one fixture, rated by recalcPointsForMatch or
   by the scoring inside updateResultsFromSources of resultsUpdater.cjs *)

\* recalcPoints with the exact-margin tier below the correct-winner tier
recalcPointsExactBelow(p, result) ==
    IF p.winner = result.winner
    THEN IF result.margin # 0 /\ result.margin # NullNum /\ p.margin = result.margin
         THEN PointsCorrect - 1 ELSE PointsCorrect
    ELSE 0

\* part_003:12-17: the points of prediction p against the stored result
recalcPoints(p, result) ==
    IF p.winner = result.winner
    THEN IF result.margin # 0 /\ result.margin # NullNum /\ p.margin = result.margin
         THEN PointsExact ELSE PointsCorrect
    ELSE 0

\* part_003:4-24: nothing happens unless the fixture exists and has a winner
recalcPointsForMatch(matchId, ms, ps) ==
    LET found == {i \in DOMAIN ms : ms[i].id = matchId}
        i == FirstIndex(ms, found)
    IN IF i = 0 \/ ms[i].result.winner = Null \/ ms[i].result.winner = <<>> THEN ps
       ELSE [j \in DOMAIN ps |->
               IF ps[j].matchId = matchId
               THEN [ps[j] EXCEPT !.points = recalcPoints(ps[j], ms[i].result)]
               ELSE ps[j]]

Scorers == {"recalc", "cjs"}
FixtureTeams == {TeamA, TeamB}
Margins == 1..MaxMargin
FinishedResults == {[winner |-> w, margin |-> g] : w \in FixtureTeams, g \in Margins}

\* predictions as the route next to each scorer stores them: part_008:344-379
\* keeps the pick in winner, server.js:1251-1301 keeps it in predictedWinner
PredictionsFor(sc, u) ==
    {Prediction(u, 1, w, Null, g) : w \in FixtureTeams, g \in Margins}
    \cup (IF sc = "cjs"
          THEN {Prediction(u, 1, Null, w, g) : w \in FixtureTeams, g \in Margins}
          ELSE {})

ScoredUsers == 1..3

InitScore ==
    /\ scorer \in Scorers
    /\ arg = <<>>
    /\ res = <<>>
    /\ now = 0
    /\ \E r \in FinishedResults :
          matches = << [NewFixture(1, 1, FixtureAB) EXCEPT
                           !.result = IF scorer = "recalc" THEN r ELSE NoResult] >>
    /\ predictions \in {ps \in [ScoredUsers -> UNION {PredictionsFor(scorer, u) : u \in ScoredUsers}] :
                           \A u \in ScoredUsers : ps[u].userId = u}
    /\ importer = "refreshCompetitionById"
    /\ reconciler = "cjs"
    /\ last = NoLast
    /\ pc = [p \in Procs |-> "idle"]
    /\ loc = [p \in Procs |-> IdleLoc]

\* recalcPointsForMatch(matchId, ...) followed by its save
RecalcPoints(matchId) ==
    /\ scorer = "recalc"
    /\ predictions' = recalcPointsForMatch(matchId, matches, predictions)
    /\ last' = Observed("recalc", 0, 0, {}, 0, <<>>)
    /\ UNCHANGED <<matches, importer, reconciler, pc, loc, scorer, arg, res, now>>

\* the reconcile run of resultsUpdater.cjs on one scraped row, which rates as
\* it attaches
ScoreOnAttach(row) ==
    /\ scorer = "cjs"
    /\ ReconcileRun(<<row>>)

NextScore ==
    \/ \E matchId \in Ids : RecalcPoints(matchId)
    \/ \E row \in ScrapeRows : ScoreOnAttach(row)

SpecScore == InitScore /\ [][NextScore]_vars

----------------------------------------------------------------------------
(* Two overlapping invocations of updateResultsFromSources of
   resultsUpdater.cjs in standalone mode: each reads the two files, awaits
   its scrape, updates its own copies and writes the files back. *)

RaceStore == refreshCompetitionById(<<>>, 1, <<FixtureAB, FixtureBC>>, <<1, 2>>).matches

InitRace ==
    /\ matches = RaceStore
    /\ predictions = InitPredictions
    /\ importer = "refreshCompetitionById"
    /\ reconciler = "cjs"
    /\ last = NoLast
    /\ pc = [p \in Procs |-> "idle"]
    /\ loc = [p \in Procs |-> IdleLoc]
    /\ scorer = "none"
    /\ arg = <<>>
    /\ res = <<>>
    /\ now = 0

\* resultsUpdater.cjs:333: await readJSON("matches.json")
ReadMatches(p) ==
    /\ pc[p] = "idle"
    /\ loc' = [loc EXCEPT ![p].matches = matches]
    /\ pc' = [pc EXCEPT ![p] = "readMatches"]
    /\ UNCHANGED <<matches, predictions, importer, reconciler, last, scorer, arg, res, now>>

\* resultsUpdater.cjs:334: await readJSON("predictions.json")
ReadPredictions(p) ==
    /\ pc[p] = "readMatches"
    /\ loc' = [loc EXCEPT ![p].predictions = predictions]
    /\ pc' = [pc EXCEPT ![p] = "readPredictions"]
    /\ UNCHANGED <<matches, predictions, importer, reconciler, last, scorer, arg, res, now>>

\* resultsUpdater.cjs:336-376: the scrape resolves and the loop runs on the
\* invocation's own copies, up to the first write
FetchAndUpdate(p, rows) ==
    /\ pc[p] = "readPredictions"
    /\ LET out == updateResultsFromSourcesCJS(loc[p].matches, loc[p].predictions,
                                              Scraped("cjs", rows))
       IN /\ loc' = [loc EXCEPT ![p] = [matches |-> out.matches,
                                        predictions |-> out.predictions,
                                        rows |-> rows]]
          /\ pc' = [pc EXCEPT ![p] = IF out.wrote THEN "updated" ELSE "done"]
    /\ UNCHANGED <<matches, predictions, importer, reconciler, last, scorer, arg, res, now>>

\* resultsUpdater.cjs:380: await writeJSON("matches.json", matches)
WriteMatches(p) ==
    /\ pc[p] = "updated"
    /\ matches' = loc[p].matches
    /\ pc' = [pc EXCEPT ![p] = "wroteMatches"]
    /\ UNCHANGED <<predictions, importer, reconciler, last, loc, scorer, arg, res, now>>

\* resultsUpdater.cjs:383: await writeJSON("predictions.json", predictions)
WritePredictions(p) ==
    /\ pc[p] = "wroteMatches"
    /\ predictions' = loc[p].predictions
    /\ pc' = [pc EXCEPT ![p] = "done"]
    /\ UNCHANGED <<matches, importer, reconciler, last, loc, scorer, arg, res, now>>

NextRace ==
    \E p \in Procs :
        \/ ReadMatches(p)
        \/ ReadPredictions(p)
        \/ \E rows \in Scrapes : FetchAndUpdate(p, rows)
        \/ WriteMatches(p)
        \/ WritePredictions(p)

SpecRace == InitRace /\ [][NextRace]_vars

----------------------------------------------------------------------------
(* The windowed scrape: one page per date of the window, each asked from
   bbc.co.uk and then from bbc.com, and the reconcile run on what came back *)

WindowDates == <<0, 24>>

\* what a day's page may show: nothing finished, or one finished game
PageRows(d) ==
    {<<>>} \cup {<<[date |-> d, t1 |-> p[1], t2 |-> p[2], s1 |-> 2, s2 |-> 1]>> :
                    p \in {<<TeamA, TeamB>>, <<TeamB, TeamC>>}}

\* a page: whether each domain answers, and the rows its markup holds
Pages(d) == {[couk |-> a, com |-> b, rows |-> rs] : a, b \in BOOLEAN, rs \in PageRows(d)}

Windows == {w \in [DOMAIN WindowDates -> UNION {Pages(WindowDates[i]) : i \in DOMAIN WindowDates}] :
               \A i \in DOMAIN WindowDates : w[i] \in Pages(WindowDates[i])}

\* resultsUpdater.cjs:236-304: the first domain that answers gives the html;
\* when neither does the date gives no rows
fetchPage(page) == IF page.couk \/ page.com THEN page.rows ELSE <<>>

\* fetchAllResults giving up at the first date whose page cannot be fetched
RECURSIVE fetchAllResultsStopOnFailure(_)
fetchAllResultsStopOnFailure(pages) ==
    IF pages = <<>> THEN <<>>
    ELSE IF ~(Head(pages).couk \/ Head(pages).com) THEN <<>>
         ELSE fetchPage(Head(pages)) \o fetchAllResultsStopOnFailure(Tail(pages))

\* resultsUpdater.cjs:307-320: every date of the window in turn
RECURSIVE fetchAllResults(_)
fetchAllResults(pages) ==
    IF pages = <<>> THEN <<>>
    ELSE fetchPage(Head(pages)) \o fetchAllResults(Tail(pages))

\* resultsUpdater.cjs:59-124 (ESM), teamAliases.js:46-110, part_004:36-110,
\* part_006:31-35: one request to bbc.co.uk; a failure gives no rows
fetchBBCResultsForDatePage(page) == IF page.couk THEN page.rows ELSE <<>>

\* resultsUpdater.cjs:143-147, teamAliases.js:127-131, part_004:124-128
RECURSIVE fetchDates(_)
fetchDates(pages) ==
    IF pages = <<>> THEN <<>>
    ELSE fetchBBCResultsForDatePage(Head(pages)) \o fetchDates(Tail(pages))

\* resultsUpdater.cjs:238-255: the requests the two-domain loop sends for a
\* date, bbc.com only when bbc.co.uk has failed
requestsTwoDomains(page) == IF page.couk THEN <<"couk">> ELSE <<"couk", "com">>

\* part_006:31-35: the one request of the single-domain fetchers
requestsOneDomain(page) == <<"couk">>

\* the requests of a pass, each with the date it is for
RequestsOf(v, pages) ==
    LET sent(i) == IF v = "cjs" THEN requestsTwoDomains(pages[i]) ELSE requestsOneDomain(pages[i])
    IN {q \in (DOMAIN pages) \X {"couk", "com"} :
          \E k \in DOMAIN sent(q[1]) : sent(q[1])[k] = q[2]}

InitFetch ==
    /\ matches = RaceStore
    /\ predictions = InitPredictions
    /\ importer = "refreshCompetitionById"
    /\ reconciler \in Reconcilers
    /\ last = NoLast
    /\ pc = [p \in Procs |-> "idle"]
    /\ loc = [p \in Procs |-> IdleLoc]
    /\ scorer = "none"
    /\ arg = <<>>
    /\ res = <<>>
    /\ now = 0

\* updateResultsFromSources over the window whose pages are as given
WindowRun(pages) ==
    LET rows == IF reconciler = "cjs" THEN fetchAllResults(pages) ELSE fetchDates(pages)
        out == Reconcile(reconciler, matches, predictions, rows)
    IN /\ matches' = IF out.wrote THEN out.matches ELSE matches
       /\ predictions' = IF out.wrote THEN out.predictions ELSE predictions
       /\ last' = Observed("window", 0, out.updated, RequestsOf(reconciler, pages), 0,
                            UnmatchedInOutput(reconciler, out))
       /\ arg' = pages
       /\ res' = rows
       /\ UNCHANGED <<importer, reconciler, pc, loc, scorer, now>>

NextFetch == \E pages \in Windows : WindowRun(pages)

SpecFetch == InitFetch /\ [][NextFetch]_vars

----------------------------------------------------------------------------
(* Submitting predictions while the clock runs.  The route is the one of the
   build the importer belongs to. *)

IdsOf(ms) == {ms[i].id : i \in DOMAIN ms}

ClockTimes == {0, 30, 40}
Users == {1, 2}

PredictionRoutes == {"refreshCompetitionById", "p013", "p008"}

\* server.js:1251-1301: the user's predictions for the match are replaced by
\* the submitted one, whatever the kickoff
submitServer(ps, u, mid, w, mg) ==
    SelectSeq(ps, LAMBDA p : ~(p.userId = u /\ p.matchId = mid))
        \o << Prediction(u, mid, Null, w, mg) >>

\* part_013:208-222: the same, with the body stored as sent
submit013(ps, u, mid, w, mg) ==
    SelectSeq(ps, LAMBDA p : ~(p.userId = u /\ p.matchId = mid))
        \o << Prediction(u, mid, w, Null, mg) >>

\* part_008:344-379: refused when the match is unknown or its kickoff lies
\* before the clock; else the pick is changed in place or appended
submit008(ms, ps, u, mid, w, t) ==
    LET found == {i \in DOMAIN ms : ms[i].id = mid}
        i == FirstIndex(ms, found)
        mine == {j \in DOMAIN ps : ps[j].userId = u /\ ps[j].matchId = mid}
        j == FirstIndex(ps, mine)
    IN IF i = 0 THEN ps
       ELSE IF ms[i].kickoff < t THEN ps
       ELSE IF j # 0 THEN [ps EXCEPT ![j].winner = w]
       ELSE Append(ps, Prediction(u, mid, w, Null, NullNum))

SubmitPrediction(v, ms, ps, u, mid, w, mg, t) ==
    CASE v = "p008" -> submit008(ms, ps, u, mid, w, t)
      [] v = "p013" -> submit013(ps, u, mid, w, mg)
      [] OTHER -> submitServer(ps, u, mid, w, mg)

InitPredict ==
    /\ matches = refreshCompetitionById(<<>>, 1, <<FixtureABDrift>>, <<1>>).matches
    /\ predictions = <<>>
    /\ importer \in PredictionRoutes
    /\ reconciler = "cjs"
    /\ last = NoLast
    /\ pc = [p \in Procs |-> "idle"]
    /\ loc = [p \in Procs |-> IdleLoc]
    /\ scorer = "none"
    /\ arg = <<>>
    /\ res = <<>>
    /\ now = 0

Tick(t) ==
    /\ t > now
    /\ now' = t
    /\ UNCHANGED <<matches, predictions, importer, reconciler, last, pc, loc, scorer, arg, res>>

\* POST /api/predictions
Submit(u, mid, w, mg) ==
    /\ predictions' = SubmitPrediction(importer, matches, predictions, u, mid, w, mg, now)
    /\ last' = Observed("predict", 0, 0, {}, 0, <<>>)
    /\ UNCHANGED <<matches, importer, reconciler, pc, loc, scorer, arg, res, now>>

NextPredict ==
    \/ \E t \in ClockTimes : Tick(t)
    \/ \E u \in Users, mid \in IdsOf(matches), w \in FixtureTeams, mg \in Margins :
          Submit(u, mid, w, mg)
    \/ \E row \in ScrapeRows : ReconcileRun(<<row>>)

SpecPredict == InitPredict /\ [][NextPredict]_vars

----------------------------------------------------------------------------
(* Name helpers on their own: the feed-title cleaners and the alias resolver,
   applied to titles put together from pieces and to names looked up in
   alias tables *)

URC == <<"U", "R", "C">>
PREM == <<"P", "R", "E", "M">>
Emojis == {"rugbyball", "trophy"}
DashLike == {"ndash", "mdash", "minus"}

StartsWith(t, w) == Len(t) >= Len(w) /\ ToLowerCase(SubSeq(t, 1, Len(w))) = ToLowerCase(w)
DropFirst(t, n) == SubSeq(t, n + 1, Len(t))

RECURSIVE DropChars(_, _)
DropChars(t, S) ==
    IF t = <<>> THEN <<>>
    ELSE IF Head(t) \in S THEN DropChars(Tail(t), S)
         ELSE <<Head(t)>> \o DropChars(Tail(t), S)

\* .replace(/\s{2,}/g, " ")
RECURSIVE CollapseSpaces(_)
CollapseSpaces(t) ==
    IF Len(t) < 2 THEN t
    ELSE IF t[1] = " " /\ t[2] = " " THEN CollapseSpaces(Tail(t))
         ELSE <<Head(t)>> \o CollapseSpaces(Tail(t))

\* the first of the prefixes, in the order of the alternation, that t starts with
FirstPrefix(t, prefixes) ==
    LET ok == {k \in DOMAIN prefixes : StartsWith(t, prefixes[k])}
    IN IF ok = {} THEN <<>> ELSE prefixes[CHOOSE k \in ok : \A j \in ok : k <= j]

\* t.replace(new RegExp(`^\\s*(?:${prefixes})\\s*:?\\s*`, "i"), ""): one
\* leading prefix, with an optional colon, is removed
stripPrefix(t, prefixes) ==
    LET u == TrimLeft(t)
        w == FirstPrefix(u, prefixes)
        v == TrimLeft(DropFirst(u, Len(w)))
    IN IF w = <<>> THEN t
       ELSE IF v # <<>> /\ Head(v) = ":" THEN TrimLeft(Tail(v)) ELSE v

\* t.replace(/\s*\|\s*.*$/i, ""), up to the spaces left before the bar
cutAtBar(t) ==
    LET at == {i \in DOMAIN t : t[i] = "|"}
    IN IF at = {} THEN t ELSE SubSeq(t, 1, (CHOOSE i \in at : \A j \in at : i <= j) - 1)

\* t.replace(/\s*-\s*(?:PREM.*|URC.*)$/i, ""), up to the spaces left before the dash
cutAtDashPrefix(t) ==
    LET at == {i \in DOMAIN t :
                 /\ t[i] = "-"
                 /\ \/ StartsWith(TrimLeft(DropFirst(t, i)), PREM)
                    \/ StartsWith(TrimLeft(DropFirst(t, i)), URC)}
    IN IF at = {} THEN t ELSE SubSeq(t, 1, (CHOOSE i \in at : \A j \in at : i <= j) - 1)

\* server.js:105-141, for a competition without a name of its own.  The
\* longer prefixes of the list begin with PREM and are shadowed by it.
cleanTeamText(text) ==
    LET t1 == [i \in DOMAIN text |-> IF text[i] = "nbsp" THEN " " ELSE text[i]]
        t2 == DropChars(t1, Emojis)
        t3 == stripPrefix(t2, <<URC, PREM>>)
        t4 == cutAtBar(t3)
        t5 == cutAtDashPrefix(t4)
    IN Trim(CollapseSpaces(t5))

\* competitionUtils.js:26-72; the suffix rule needs PREM, CUP or TROPHY after the bar
cleanTeamTextUtils(text) ==
    LET t1 == [i \in DOMAIN text |-> IF text[i] = "nbsp" THEN " " ELSE text[i]]
        t2 == DropChars(t1, Emojis)
        bars == {i \in DOMAIN t2 :
                   /\ t2[i] = "|"
                   /\ \E j \in i + 1..Len(t2) : StartsWith(DropFirst(t2, j - 1), PREM)}
        t3 == IF bars = {} THEN t2
              ELSE SubSeq(t2, 1, (CHOOSE i \in bars : \A j \in bars : i <= j) - 1)
        t4 == [i \in DOMAIN t3 |-> IF t3[i] \in DashLike THEN "-" ELSE t3[i]]
        t5 == Trim(CollapseSpaces(t4))
    IN Trim(stripPrefix(t5, <<URC, PREM>>))

TitlePieces == {URC, PREM, <<":">>, <<" ">>, <<"A">>, <<"|">>, <<"-">>, <<"trophy">>}

RECURSIVE Concat(_)
Concat(ss) == IF ss = <<>> THEN <<>> ELSE Head(ss) \o Concat(Tail(ss))

Titles == {Concat(ss) : ss \in SeqsUpTo(TitlePieces, MaxPieces)}

AliasNames == {TeamA, TeamALower, TeamB}
AliasEntries == {[official |-> o, aliases |-> al] : o \in AliasNames, al \in SeqsUpTo(AliasNames, 1)}

\* the entries of Object.entries(aliases): keys are distinct
AliasTables == {t \in SeqsUpTo(AliasEntries, MaxEntries) :
                   \A i, j \in DOMAIN t : i # j => t[i].official # t[j].official}

NameArgs ==
    {[kind |-> "title", text |-> t, table |-> <<>>] : t \in Titles}
    \cup {[kind |-> "alias", text |-> n, table |-> t] : n \in AliasNames, t \in AliasTables}

InitNames ==
    /\ arg \in NameArgs
    /\ res = <<>>
    /\ matches = <<>>
    /\ predictions = <<>>
    /\ importer = "refreshCompetitionById"
    /\ reconciler = "alias"
    /\ last = NoLast
    /\ pc = [p \in Procs |-> "idle"]
    /\ loc = [p \in Procs |-> IdleLoc]
    /\ scorer = "none"
    /\ now = 0

Applied(op, out) ==
    /\ res' = out
    /\ last' = Observed(op, 0, 0, {}, 0, <<>>)
    /\ UNCHANGED <<matches, predictions, importer, reconciler, pc, loc, scorer, arg, now>>

CleanTitle == arg.kind = "title" /\ Applied("cleanTeamText", cleanTeamText(arg.text))
CleanTitleUtils == arg.kind = "title" /\ Applied("cleanTeamTextUtils", cleanTeamTextUtils(arg.text))
ResolveAlias ==
    arg.kind = "alias" /\ Applied("normalizeTeamName", normalizeTeamNameOver(arg.table, Trim(arg.text), 1))

NextNames == CleanTitle \/ CleanTitleUtils \/ ResolveAlias

SpecNames == InitNames /\ [][NextNames]_vars

----------------------------------------------------------------------------
(* Leaderboard recalculation: POST /api/admin/recalc-leaderboard of server.js
   (registered twice; Express answers from the first registration),
   recalcPointsForMatch and recalcAllMatches, over fixtures whose result the
   administrator edits with PUT /api/matches/:id *)

FlagDays == 7

DrawResult == [winner |-> Null, margin |-> 0]

\* JS truthiness of a name: null, undefined and "" are falsy
Truthy(s) == s # Null /\ s # <<>>

\* JS truthiness of a number: null, undefined and 0 are falsy
TruthyNum(n) == n # NullNum /\ n # 0

\* Number(x) of a stored margin: Number(null) is 0
NumberOf(n) == IF n = NullNum THEN 0 ELSE n

\* utils/scoring.js is not among the sources; score(prediction, result) as the
\* specification states it: a draw and no pick, or the winner picked, is the
\* correct-winner tier, the exact margin on top is the higher tier, else zero
calculatePoints(predictedWinner, predictedMargin, actualWinner, actualMargin) ==
    IF ~Truthy(actualWinner)
    THEN IF ~Truthy(predictedWinner) THEN PointsCorrect ELSE 0
    ELSE IF Truthy(predictedWinner)
            /\ normalizeTeamName(predictedWinner) = normalizeTeamName(actualWinner)
         THEN IF predictedMargin = actualMargin THEN PointsExact ELSE PointsCorrect
         ELSE 0

\* server.js:1177-1193: the body is merged over the stored fixture
putMatch(ms, matchId, result) ==
    LET found == {i \in DOMAIN ms : ms[i].id = matchId}
        idx == FirstIndex(ms, found)
    IN IF idx = 0 THEN ms ELSE [ms EXCEPT ![idx].result = result]

Rescored(p, n) == [prediction |-> p, touched |-> n]

\* rescore counting every prediction it rates, changed or not
rescoreCountsEveryRated(ms, p) ==
    LET i == LastIndex(ms, {k \in DOMAIN ms : ms[k].id = p.matchId})
    IN IF i = 0 \/ ~Truthy(ms[i].result.winner) THEN Rescored(p, 0)
       ELSE LET newPoints == calculatePoints(p.predictedWinner, p.margin,
                                             ms[i].result.winner, ms[i].result.margin)
            IN Rescored([p EXCEPT !.points = newPoints], 1)

\* server.js:379-399: one prediction in the loop of the first registration
rescore(ms, p) ==
    LET i == LastIndex(ms, {k \in DOMAIN ms : ms[k].id = p.matchId})
    IN IF i = 0 \/ ~Truthy(ms[i].result.winner) THEN Rescored(p, 0)
       ELSE LET newPoints == calculatePoints(p.predictedWinner, p.margin,
                                             ms[i].result.winner, ms[i].result.margin)
            IN IF p.points # newPoints
               THEN Rescored([p EXCEPT !.points = newPoints], 1)
               ELSE Rescored(p, 0)

\* server.js:1364-1401: one prediction in the loop of the second registration,
\* which rates every prediction whose fixture exists
rescoreTotals(ms, p) ==
    LET i == LastIndex(ms, {k \in DOMAIN ms : ms[k].id = p.matchId})
    IN IF i = 0 THEN Rescored(p, 0)
       ELSE LET actualWinner == IF Truthy(ms[i].result.winner) THEN ms[i].result.winner ELSE Null
                predictedWinner == IF Truthy(p.predictedWinner) THEN p.predictedWinner ELSE Null
                points == calculatePoints(predictedWinner, NumberOf(p.margin),
                                          actualWinner, NumberOf(ms[i].result.margin))
            IN IF p.points # points
               THEN Rescored([p EXCEPT !.points = points], 1)
               ELSE Rescored(p, 0)

RECURSIVE SumTouched(_)
SumTouched(rs) == IF rs = <<>> THEN 0 ELSE Head(rs).touched + SumTouched(Tail(rs))

Recalculated(ps, n, board) == [predictions |-> ps, updated |-> n, leaderboard |-> board]

\* server.js:361-419
recalcLeaderboard(ms, ps) ==
    LET rs == [j \in DOMAIN ps |-> rescore(ms, ps[j])]
    IN Recalculated([j \in DOMAIN ps |-> rs[j].prediction], SumTouched(rs), <<>>)

RECURSIVE SumPoints(_)
SumPoints(ps) ==
    IF ps = <<>> THEN 0
    ELSE (IF Head(ps).points = NullNum THEN 0 ELSE Head(ps).points) + SumPoints(Tail(ps))

\* server.js:1404-1421: the running total of one user
totalsOf(ms, ps, u) ==
    LET mine == SelectSeq(ps, LAMBDA p : p.userId = u /\ \E i \in DOMAIN ms : ms[i].id = p.matchId)
    IN [userId |-> u, totalPoints |-> SumPoints(mine), predictionsMade |-> Len(mine),
        correctPicks |-> Len(SelectSeq(mine, LAMBDA p : p.points > 0))]

\* the users in the order their first counted prediction comes in ps
RECURSIVE usersInOrder(_, _, _)
usersInOrder(ms, ps, seen) ==
    IF ps = <<>> THEN seen
    ELSE LET p == Head(ps)
             counted == \E i \in DOMAIN ms : ms[i].id = p.matchId
         IN usersInOrder(ms, Tail(ps),
                         IF counted /\ p.userId \notin SeqToSet(seen)
                         THEN Append(seen, p.userId) ELSE seen)

\* Array.prototype.sort by totalPoints, highest first, stable
RECURSIVE insertByTotal(_, _)
insertByTotal(sorted, t) ==
    IF sorted = <<>> THEN <<t>>
    ELSE IF Head(sorted).totalPoints >= t.totalPoints
         THEN <<Head(sorted)>> \o insertByTotal(Tail(sorted), t)
         ELSE <<t>> \o sorted

RECURSIVE sortByTotal(_, _)
sortByTotal(ts, sorted) ==
    IF ts = <<>> THEN sorted ELSE sortByTotal(Tail(ts), insertByTotal(sorted, Head(ts)))

\* server.js:1344-1450
recalcLeaderboardTotals(ms, ps) ==
    LET rs == [j \in DOMAIN ps |-> rescoreTotals(ms, ps[j])]
        ps2 == [j \in DOMAIN ps |-> rs[j].prediction]
        us == usersInOrder(ms, ps2, <<>>)
    IN Recalculated(ps2, SumTouched(rs),
                    sortByTotal([k \in DOMAIN us |-> totalsOf(ms, ps2, us[k])], <<>>))

\* part_003:38-46: the result a fixture has after the new results are applied
applyNewResult(m, newResults) ==
    LET found == {k \in DOMAIN newResults : newResults[k].matchId = m.id}
    IN IF found = {} THEN m
       ELSE LET nr == newResults[FirstIndex(newResults, found)]
            IN [m EXCEPT !.result =
                    [winner |-> IF Truthy(nr.winner) THEN nr.winner ELSE m.result.winner,
                     margin |-> IF TruthyNum(nr.margin) THEN nr.margin ELSE m.result.margin]]

\* part_003:47-58: a fixture without a result anywhere, kicked off less than a week ago
flagged(m, newResults, t) ==
    /\ \A k \in DOMAIN newResults : newResults[k].matchId # m.id
    /\ ~Truthy(m.result.winner)
    /\ t - m.kickoff < FlagDays * 24

\* part_003:61-72: the predictions once the fixtures from the i-th on are rated
RECURSIVE recalcAllLoop(_, _, _)
recalcAllLoop(ms, ps, i) ==
    IF i > Len(ms) THEN ps
    ELSE recalcAllLoop(ms,
                       IF Truthy(ms[i].result.winner)
                       THEN [j \in DOMAIN ps |->
                               IF ps[j].matchId = ms[i].id
                               THEN [ps[j] EXCEPT !.points = recalcPoints(ps[j], ms[i].result)]
                               ELSE ps[j]]
                       ELSE ps,
                       i + 1)

\* part_003:33-84
recalcAllMatches(ms, ps, newResults, t) ==
    LET ms2 == [i \in DOMAIN ms |-> applyNewResult(ms[i], newResults)]
    IN [matches |-> ms2, predictions |-> recalcAllLoop(ms2, ps, 1),
        flagged |-> {ms[i].id : i \in {k \in DOMAIN ms : flagged(ms[k], newResults, t)}}]

Recalculators == {"recalcLeaderboard", "recalcLeaderboardTotals", "recalcPointsForMatch",
                  "recalcAllMatches"}
Picks == {Null, TeamA, TeamB}
EditedResults == {NoResult, DrawResult} \cup FinishedResults
NewResults == SeqsUpTo({[matchId |-> 1, winner |-> w, margin |-> g] :
                           w \in Picks, g \in {NullNum} \cup Margins}, 1)

\* the routes of server.js keep the pick in predictedWinner, part_003 reads winner
PicksFor(sc, u) ==
    IF sc \in {"recalcLeaderboard", "recalcLeaderboardTotals"}
    THEN {Prediction(u, 1, Null, w, g) : w \in Picks, g \in Margins}
    ELSE {Prediction(u, 1, w, Null, g) : w \in Picks, g \in Margins}

InitLeaderboard ==
    /\ scorer \in Recalculators
    /\ matches = << NewFixture(1, 1, FixtureAB) >>
    /\ predictions \in {ps \in [Users -> UNION {PicksFor(scorer, u) : u \in Users}] :
                           \A u \in Users : ps[u].userId = u}
    /\ arg = <<>>
    /\ res = <<>>
    /\ now = 0
    /\ importer = "refreshCompetitionById"
    /\ reconciler = "cjs"
    /\ last = NoLast
    /\ pc = [p \in Procs |-> "idle"]
    /\ loc = [p \in Procs |-> IdleLoc]

\* PUT /api/matches/:id with a result in the body
EditMatch(matchId, result) ==
    /\ matches' = putMatch(matches, matchId, result)
    /\ last' = Observed("edit", 0, 0, {}, 0, <<>>)
    /\ UNCHANGED <<predictions, importer, reconciler, pc, loc, scorer, arg, res, now>>

\* POST /api/admin/recalc-leaderboard as either registration answers it
RecalcLeaderboard ==
    /\ scorer \in {"recalcLeaderboard", "recalcLeaderboardTotals"}
    /\ LET out == IF scorer = "recalcLeaderboard"
                  THEN recalcLeaderboard(matches, predictions)
                  ELSE recalcLeaderboardTotals(matches, predictions)
       IN /\ predictions' = out.predictions
          /\ res' = out.leaderboard
          /\ last' = Observed("recalc", 0, out.updated, {}, 0, <<>>)
    /\ arg' = <<>>
    /\ UNCHANGED <<matches, importer, reconciler, pc, loc, scorer, now>>

\* recalcPointsForMatch(matchId, ...) and its save
RecalcMatch(matchId) ==
    /\ scorer = "recalcPointsForMatch"
    /\ predictions' = recalcPointsForMatch(matchId, matches, predictions)
    /\ last' = Observed("recalc", 0, NullNum, {}, 0, <<>>)
    /\ arg' = <<matchId>>
    /\ UNCHANGED <<matches, importer, reconciler, pc, loc, scorer, res, now>>

\* recalcAllMatches(matches, predictions, newResults, ...) and its two saves
RecalcAll(newResults) ==
    /\ scorer = "recalcAllMatches"
    /\ LET out == recalcAllMatches(matches, predictions, newResults, now)
       IN /\ matches' = out.matches
          /\ predictions' = out.predictions
          /\ last' = Observed("recalc", 0, NullNum, out.flagged, 0, <<>>)
    /\ arg' = newResults
    /\ UNCHANGED <<importer, reconciler, pc, loc, scorer, res, now>>

NextLeaderboard ==
    \/ \E matchId \in Ids, result \in EditedResults : EditMatch(matchId, result)
    \/ RecalcLeaderboard
    \/ \E matchId \in Ids : RecalcMatch(matchId)
    \/ \E newResults \in NewResults : RecalcAll(newResults)

SpecLeaderboard == InitLeaderboard /\ [][NextLeaderboard]_vars

----------------------------------------------------------------------------
(* Calendar import from the events of a feed as node-ical hands them over: a
   summary and a start, which may be missing or an invalid date *)

MaxEvents == 2

\* a Date that holds no time: new Date(x).toISOString() throws on it
InvalidDate == -2
TBC == <<"T", "B", "C">>
TBD == <<"T", "B", "D">>
SepVs == <<" ", "v", "s", " ">>
SepVsDot == <<" ", "v", "s", ".", " ">>
SepV == <<" ", "v", " ">>

\* does w stand in t at index i; ci ignores case
OccursAt(t, w, i, ci) ==
    /\ i >= 1 /\ i + Len(w) - 1 <= Len(t)
    /\ IF ci THEN ToLowerCase(SubSeq(t, i, i + Len(w) - 1)) = ToLowerCase(w)
       ELSE SubSeq(t, i, i + Len(w) - 1) = w

\* String.prototype.includes
Includes(t, w) == \E i \in 1..Len(t) : OccursAt(t, w, i, FALSE)

\* String.prototype.split on the first separator of seps that stands
\* leftmost, repeated over the rest
RECURSIVE SplitOn(_, _, _)
SplitOn(t, seps, ci) ==
    LET at == {i \in 1..Len(t) : \E k \in DOMAIN seps : OccursAt(t, seps[k], i, ci)}
    IN IF at = {} THEN <<t>>
       ELSE LET i == CHOOSE x \in at : \A y \in at : x <= y
                k == CHOOSE x \in DOMAIN seps :
                        /\ OccursAt(t, seps[x], i, ci)
                        /\ \A y \in DOMAIN seps : OccursAt(t, seps[y], i, ci) => x <= y
            IN <<SubSeq(t, 1, i - 1)>> \o SplitOn(DropFirst(t, i + Len(seps[k]) - 1), seps, ci)

\* the k-th element of a destructured array: undefined past its end
Piece(ps, k) == IF k <= Len(ps) THEN ps[k] ELSE Null

Parsed(entries, threw) == [entries |-> entries, threw |-> threw]
Entry(a, b, start) == [teamA |-> a, teamB |-> b, start |-> start]

\* what the body of an import loop makes of one event: it passes it over,
\* throws, or has an entry to store
Skipped == [kind |-> "skip", entry |-> Entry(Null, Null, NullNum)]
Thrown == [kind |-> "throw", entry |-> Entry(Null, Null, NullNum)]
Taken(a, b, start) == [kind |-> "entry", entry |-> Entry(a, b, start)]

\* server.js:87-94
cleanTeamName(s) ==
    IF ~Truthy(s) THEN TBD
    ELSE LET t1 == IF s # <<>> /\ Head(s) = "rugbyball" THEN TrimLeft(Tail(s)) ELSE s
             t2 == IF StartsWith(t1, URC \o <<":">>) THEN TrimLeft(DropFirst(t1, 4)) ELSE t1
             bars == {i \in DOMAIN t2 : t2[i] = "|" /\ Piece(TrimLeft(DropFirst(t2, i)), 1) = "trophy"}
             t3 == IF bars = {} THEN t2
                   ELSE SubSeq(t2, 1, (CHOOSE i \in bars : \A j \in bars : i <= j) - 1)
         IN Trim(t3)

\* server.js:161-194 parseIcsToMatches, one event: an event without a start
\* or without two sides is passed over; toISOString throws on an invalid start
parseIcsToMatches(ev) ==
    LET summary == Trim(ev.summary)
        sides == IF Includes(summary, SepVs) THEN SplitOn(summary, <<SepVs>>, FALSE)
                 ELSE IF Includes(summary, SepV) THEN SplitOn(summary, <<SepV>>, FALSE)
                 ELSE <<>>
        teamA == Trim(Piece(sides, 1))
        teamB == Trim(Piece(sides, 2))
    IN IF ev.start = NullNum \/ ~Truthy(teamA) \/ ~Truthy(teamB) THEN Skipped
       ELSE IF ev.start = InvalidDate THEN Thrown
       ELSE Taken(teamA, teamB, ev.start)

\* a side of summary.split(" vs ").map((t) => t?.trim() || "TBD")
SideOrTBD(ps, k) ==
    IF Piece(ps, k) = Null THEN Null
    ELSE IF Trim(Piece(ps, k)) = <<>> THEN TBD ELSE Trim(Piece(ps, k))

\* server.js:234-257, one event: every event becomes a fixture; a missing
\* second side stays undefined, a missing or invalid start is stored as no
\* kickoff
parseRefreshCompetitionById(ev) ==
    LET s1 == DropChars(ev.summary, {"rugbyball"})
        s2 == IF StartsWith(s1, URC \o <<":">>) THEN TrimLeft(DropFirst(s1, 4)) ELSE s1
        sides == SplitOn(Trim(s2), <<SepVs>>, FALSE)
    IN Taken(SideOrTBD(sides, 1), SideOrTBD(sides, 2),
             IF ev.start = InvalidDate THEN NullNum ELSE ev.start)

\* server.js:749-761: summary.match(/(.+?)\s+v(?:s\.?)?\s+(.+)/i), the sides
\* cleaned, or TBD and TBD when the title does not split
sidesOfRoute(summary) ==
    LET seps == <<SepVsDot, SepVs, SepV>>
        ok(i, k) == OccursAt(summary, seps[k], i, TRUE) /\ i + Len(seps[k]) <= Len(summary)
        at == {i \in 2..Len(summary) : \E k \in DOMAIN seps : ok(i, k)}
    IN IF at = {} THEN <<TBD, TBD>>
       ELSE LET i == CHOOSE x \in at : \A y \in at : x <= y
                k == CHOOSE x \in DOMAIN seps : ok(i, x) /\ \A y \in DOMAIN seps : ok(i, y) => x <= y
            IN <<cleanTeamName(SubSeq(summary, 1, i - 1)),
                 cleanTeamName(DropFirst(summary, i + Len(seps[k]) - 1))>>

\* server.js:751-778, one event: only events with a summary and a start are
\* taken; toISOString throws on an invalid start
parseRefreshRoute(ev) ==
    IF ev.summary = <<>> \/ ev.start = NullNum THEN Skipped
    ELSE IF ev.start = InvalidDate THEN Thrown
    ELSE LET sides == sidesOfRoute(ev.summary)
         IN Taken(sides[1], sides[2], ev.start)

\* part_013:312-322, one event: only a summary that includes "vs" is taken;
\* two sides that both read tbc are passed over, and teamB.toLowerCase()
\* throws when the title did not split after a first side tbc; toISOString
\* throws on an invalid start
parse013(ev) ==
    LET summary == Trim(ev.summary)
        sides == SplitOn(summary, <<SepVs>>, FALSE)
        teamA == Trim(Piece(sides, 1))
        teamB == Trim(Piece(sides, 2))
    IN IF ~Includes(summary, <<"v", "s">>) THEN Skipped
       ELSE IF ev.start = InvalidDate THEN Thrown
       ELSE IF ToLowerCase(teamA) # ToLowerCase(TBC) THEN Taken(teamA, teamB, ev.start)
       ELSE IF teamB = Null THEN Thrown
       ELSE IF ToLowerCase(teamB) = ToLowerCase(TBC) THEN Skipped
       ELSE Taken(teamA, teamB, ev.start)

\* part_008:154-169, one event: only a summary that splits on " vs " is
\* taken; start.toISOString() throws on a missing and on an invalid start
parse008(ev) ==
    LET sides == SplitOn(Trim(DropChars(ev.summary, {"rugbyball"})), <<SepVs>>, FALSE)
    IN IF ~Truthy(Piece(sides, 1)) \/ ~Truthy(Piece(sides, 2)) THEN Skipped
       ELSE IF ev.start \in {NullNum, InvalidDate} THEN Thrown
       ELSE Taken(Trim(sides[1]), Trim(sides[2]), ev.start)

NonWord == {" ", ".", ":", "|", "-", "nbsp"} \cup Emojis \cup DashLike

\* competitionUtils.js:123: summary.match(/\b(vs?\.?)\b/i), a v or vs that
\* stands as a word
hasVsWord(t) ==
    \E i \in DOMAIN t :
        /\ t[i] = "v"
        /\ i = 1 \/ t[i - 1] \in NonWord
        /\ \/ i = Len(t) \/ t[i + 1] \in NonWord
           \/ /\ t[i + 1] = "s"
              /\ i + 1 = Len(t) \/ t[i + 2] \in NonWord

\* competitionUtils.js:74-80
splitTeamsFromSummary(summary) ==
    LET sides == SplitOn(summary, <<SepVsDot, SepVs, SepV>>, TRUE)
    IN IF ~Truthy(Piece(sides, 1)) \/ ~Truthy(Piece(sides, 2)) THEN <<TBD, TBD>>
       ELSE <<Trim(sides[1]), Trim(sides[2])>>

\* competitionUtils.js:125-133: the two sides cleaned and checked
cleanedSides(sides, start) ==
    LET take(cleanA, cleanB) ==
            IF \/ cleanA = <<>> \/ cleanB = <<>>
               \/ ToLowerCase(cleanA) = ToLowerCase(TBC) /\ ToLowerCase(cleanB) = ToLowerCase(TBC)
            THEN Skipped
            ELSE Taken(cleanA, cleanB, start)
    IN CHOOSE o \in {take(a, b) : a \in {cleanTeamTextUtils(sides[1])},
                                  b \in {cleanTeamTextUtils(sides[2])}} : TRUE

\* competitionUtils.js:117-133, one event: the entries the merge goes over;
\* toISOString throws on an invalid start
parseCompetitionUtils(ev) ==
    IF ~hasVsWord(Trim(ev.summary)) THEN Skipped
    ELSE IF ev.start = InvalidDate THEN Thrown
    ELSE CHOOSE o \in {cleanedSides(sides, ev.start) :
                          sides \in {splitTeamsFromSummary(Trim(ev.summary))}} : TRUE

CalendarImporters == {"refreshCompetitionById", "refreshRoute", "upsert", "p013", "p008",
                      "competitionUtils"}

\* what generation v makes of one event
ParseEvent(v, ev) ==
    CASE v = "refreshCompetitionById" -> parseRefreshCompetitionById(ev)
      [] v = "refreshRoute" -> parseRefreshRoute(ev)
      [] v = "upsert" -> parseIcsToMatches(ev)
      [] v = "p013" -> parse013(ev)
      [] v = "p008" -> parse008(ev)
      [] OTHER -> parseCompetitionUtils(ev)

\* the entries among the outcomes of the loop body, in order, up to the first
\* throw
entriesUpToThrow(one) ==
    LET bad == {i \in DOMAIN one : one[i].kind = "throw"}
        upto == IF bad = {} THEN Len(one) ELSE (CHOOSE i \in bad : \A j \in bad : i <= j) - 1
        kept == SelectSeq(SubSeq(one, 1, upto), LAMBDA o : o.kind = "entry")
    IN Parsed([i \in DOMAIN kept |-> kept[i].entry], bad # {})

\* what a generation reads out of the events of a feed
ParseEvents(v, events) ==
    CHOOSE parsed \in {entriesUpToThrow(one) :
                          one \in {[i \in DOMAIN events |-> ParseEvent(v, events[i])]}} : TRUE

\* the import of the entries read.  A throw leaves the file as it was;
\* part_008 keeps its fixtures in memory, where the events pushed before the
\* throw stay
importParsed(v, ms, comp, parsed, ids) ==
    LET feed == parsed.entries
        out == CASE v \in {"refreshCompetitionById", "refreshRoute"} ->
                       refreshCompetitionById(ms, comp, feed, ids)
                 [] v = "upsert" -> upsertMatchesForCompetition(ms, comp, feed, ids)
                 [] v = "p013" -> importMatchesFromICS013(ms, comp, feed, ids)
                 [] v = "p008" -> refresh008(ms, comp, feed, ids)
                 [] OTHER -> importMatchesFromICS(ms, comp, feed, ids)
    IN IF ~parsed.threw THEN out
       ELSE IF v = "p008" THEN Imported(out.matches, NullNum, NullNum, FALSE)
       ELSE Imported(ms, NullNum, NullNum, FALSE)

\* the import of each generation over the events of a feed
ImportEvents(v, ms, comp, events, ids) ==
    CHOOSE out \in {importParsed(v, ms, comp, parsed, ids) :
                       parsed \in {ParseEvents(v, events)}} : TRUE

Event(summary, start) == [summary |-> summary, start |-> start]

\* one entry that is in order, and entries that lack a start, have a start
\* that is no time, do not split, or name the placeholder on both sides
CalendarEvents ==
    { Event(TeamA \o SepVs \o TeamB, 0),
      Event(TeamA \o SepVs \o TeamB, NullNum),
      Event(TeamA \o SepVs \o TeamB, InvalidDate),
      Event(TeamA \o TeamB, 0),
      Event(TeamA \o <<"v", "s">> \o TeamB, 0),
      Event(TBC \o SepVs \o TBC, 0) }
CalendarFeeds == SeqsUpTo(CalendarEvents, MaxEvents)

InitCalendar ==
    /\ matches = <<>>
    /\ predictions = <<>>
    /\ importer \in CalendarImporters
    /\ reconciler = "cjs"
    /\ last = NoLast
    /\ pc = [p \in Procs |-> "idle"]
    /\ loc = [p \in Procs |-> IdleLoc]
    /\ scorer = "none"
    /\ arg = <<>>
    /\ res = <<>>
    /\ now = 0

\* one import of the events of a feed; part_008 serves its in-memory list
ImportCalendar(comp, events, ids) ==
    \E out \in {ImportEvents(importer, matches, comp, events, ids)} :
       /\ Len(out.matches) <= MaxStore
       /\ matches' = IF out.wrote \/ importer = "p008" THEN out.matches ELSE matches
       /\ last' = Observed("calendar", comp, out.added, {}, 0, <<>>)
       /\ arg' = events
       /\ res' = <<out.wrote>>
       /\ UNCHANGED <<predictions, importer, reconciler, pc, loc, scorer, now>>

\* the ids drawn for new fixtures are taken distinct here, in the order of
\* the events; ids that coincide are followed in the store under additions
\* and deletions
NextCalendar ==
    \E comp \in Comps, events \in CalendarFeeds :
        ImportCalendar(comp, events, [i \in DOMAIN events |-> i])

SpecCalendar == InitCalendar /\ [][NextCalendar]_vars

----------------------------------------------------------------------------
(* Winner and margin as each generation derives them from the two final
   scores of a row *)

\* src/updateResultsFromBBC.js:21-26: the second team wins unless the first
\* has the higher score
updateResultsFromBBC(row) ==
    [date |-> NullNum, teamA |-> row.t1, teamB |-> row.t2,
     winner |-> IF row.s1 > row.s2 THEN row.t1 ELSE row.t2,
     margin |-> AbsDiff(row.s1, row.s2)]

\* utils/updateResultsFromSources.js:46-56 with the margin of :92-95: names
\* go through the alias table, the away side wins unless the home side has
\* the higher score
fetchBBCResultsForDateUtils(row) ==
    [date |-> row.date, teamA |-> normalizeTeamName(row.t1), teamB |-> normalizeTeamName(row.t2),
     winner |-> IF row.s1 > row.s2 THEN normalizeTeamName(row.t1) ELSE normalizeTeamName(row.t2),
     margin |-> AbsDiff(row.s1, row.s2)]

Fetchers == AllReconcilers \cup {"bbc", "utilsSources"}

\* the record generation v makes of a row
Derived(v, row) ==
    CASE v = "bbc" -> updateResultsFromBBC(row)
      [] v = "utilsSources" -> fetchBBCResultsForDateUtils(row)
      [] OTHER -> Scraped(v, <<row>>)[1]

DeriveRows == {[date |-> d, t1 |-> p[1], t2 |-> p[2], s1 |-> a, s2 |-> b] :
                  d \in PageDates, p \in ScrapePairs, a \in 0..MaxMargin, b \in 0..MaxMargin}

InitDerive ==
    /\ matches = <<>>
    /\ predictions = <<>>
    /\ importer = "none"
    /\ reconciler \in Fetchers
    /\ last = NoLast
    /\ pc = [p \in Procs |-> "idle"]
    /\ loc = [p \in Procs |-> IdleLoc]
    /\ scorer = "none"
    /\ arg = <<>>
    /\ res = <<>>
    /\ now = 0

\* one completed row of the page goes through the fetcher
Derive(row) ==
    /\ arg' = <<row>>
    /\ res' = <<Derived(reconciler, row)>>
    /\ last' = Observed("derive", 0, 0, {}, 0, <<>>)
    /\ UNCHANGED <<matches, predictions, importer, reconciler, pc, loc, scorer, now>>

NextDerive == \E row \in DeriveRows : Derive(row)

SpecDerive == InitDerive /\ [][NextDerive]_vars

----------------------------------------------------------------------------
(* The fixture lookup of each generation on one fixture and one scraped row *)

TeamA1 == <<"A", "1">>

PairNames == {TeamA, TeamALower, TeamB, TeamA1}

\* a stored fixture of two different names, kickoff on the page's day
PairFixtures ==
    {NewFixture(1, 1, [teamA |-> a, teamB |-> b, start |-> 0]) :
        a \in PairNames \ {TeamALower}, b \in PairNames \ {TeamALower}}
    \ {NewFixture(1, 1, [teamA |-> a, teamB |-> a, start |-> 0]) : a \in PairNames}

\* a completed row of two different names
PairRows ==
    {[date |-> 0, t1 |-> a, t2 |-> b, s1 |-> s[1], s2 |-> s[2]] :
        a \in PairNames, b \in PairNames, s \in {<<2, 1>>, <<1, 2>>}}
    \ {[date |-> 0, t1 |-> a, t2 |-> a, s1 |-> s[1], s2 |-> s[2]] :
        a \in PairNames, s \in {<<2, 1>>, <<1, 2>>}}

InitPair ==
    /\ matches = <<>>
    /\ predictions = <<>>
    /\ importer = "none"
    /\ reconciler \in AllReconcilers
    /\ last = NoLast
    /\ pc = [p \in Procs |-> "idle"]
    /\ loc = [p \in Procs |-> IdleLoc]
    /\ scorer = "none"
    /\ arg = <<>>
    /\ res = <<>>
    /\ now = 0

\* the record of the row is looked up against the fixture
LookUp(m, row) ==
    /\ arg' = <<m, row>>
    /\ res' = <<TeamsMatch(reconciler, m, Scraped(reconciler, <<row>>)[1])>>
    /\ last' = Observed("lookup", 0, 0, {}, 0, <<>>)
    /\ UNCHANGED <<matches, predictions, importer, reconciler, pc, loc, scorer, now>>

NextPair == \E m \in PairFixtures, row \in PairRows : LookUp(m, row)

SpecPair == InitPair /\ [][NextPair]_vars

----------------------------------------------------------------------------
(* A reconcile run in standalone mode, which reads the two files itself *)

\* resultsUpdater.cjs:204-212, part_003:99-107: the parsed content of the
\* file, or the empty list when the file cannot be read or parsed
readJSON(content, readable) == IF readable THEN content ELSE <<>>

\* the generations whose run ends with a write of predictions.json
\* (resultsUpdater.cjs:384-385, part_003:267, part_004:193,
\* scrape-statbunker.mjs:332); the ESM variant and teamAliases.js write
\* matches.json only
WritesPredictions(v) == v \in {"cjs", "p004", "statbunker", "p003"}

\* one run on the files: matches.json is read, predictions.json is read or
\* fails to be, and what the run ends with is written back whole
StandaloneRun(rows, readable) ==
    LET ps == readJSON(predictions, readable)
        out == Reconcile(reconciler, readJSON(matches, TRUE), ps, rows)
    IN /\ matches' = IF out.wrote THEN out.matches ELSE matches
       /\ predictions' = IF out.wrote /\ WritesPredictions(reconciler) THEN out.predictions
                         ELSE predictions
       /\ last' = Observed("standalone", 0, out.updated, {}, 0, UnmatchedInOutput(reconciler, out))
       /\ arg' = <<readable>>
       /\ res' = <<out.wrote>>
       /\ UNCHANGED <<importer, reconciler, pc, loc, scorer, now>>

NextFiles == \E rows \in Scrapes, readable \in BOOLEAN : StandaloneRun(rows, readable)

SpecFiles == InitLookup /\ [][NextFiles]_vars

----------------------------------------------------------------------------
(* A user saving a prediction while a reconcile run of resultsUpdater.cjs in
   standalone mode is under way *)

\* server.js:1251-1301 POST /api/predictions: predictions.json is read, the
\* user's pick for the match replaced and the list written back.  The phase
\* the reconcile run is in at that moment is kept with the pick.
SavePrediction(u, mid, w) ==
    /\ predictions' = submitServer(predictions, u, mid, w, 1)
    /\ arg' = <<Prediction(u, mid, Null, w, 1)>>
    /\ res' = <<pc["cron"]>>
    /\ last' = Observed("save", 0, 0, {}, 0, <<>>)
    /\ UNCHANGED <<matches, importer, reconciler, pc, loc, scorer, now>>

\* what the pages show during the run: nothing finished, or A 2 - 1 B
SaveScrapes == {<<>>, <<[date |-> 0, t1 |-> TeamA, t2 |-> TeamB, s1 |-> 2, s2 |-> 1]>>}

NextSave ==
    \/ ReadMatches("cron")
    \/ ReadPredictions("cron")
    \/ \E rows \in SaveScrapes : FetchAndUpdate("cron", rows)
    \/ WriteMatches("cron")
    \/ WritePredictions("cron")
    \/ \E u \in Users, mid \in IdsOf(matches) : SavePrediction(u, mid, TeamB)

SpecSave == InitRace /\ [][NextSave]_vars

----------------------------------------------------------------------------
(* The fixture store under imports, manual additions and deletions *)

IdComps == {1, 2}
IdEntries == {FixtureAB, FixtureBC}
IdFeeds == SeqsUpTo(IdEntries, MaxFeed)

\* the ids the store is followed up to
MaxFixtureId == MaxId + 1
IdsCapped(ms) == \A i \in DOMAIN ms : ms[i].id <= MaxFixtureId
IdBuilds == {"refreshCompetitionById", "upsert", "p008"}

\* server.js:1143-1169 POST /api/matches: the id is one more than the highest
addMatchServer(ms, comp, e) ==
    Append(ms, NewFixture(IF ms = <<>> THEN 1 ELSE MaxOf({ms[i].id : i \in DOMAIN ms}) + 1, comp, e))

\* part_008:310-332 POST /api/matches: the id is one more than the number of
\* fixtures
addMatch008(ms, comp, e) == Append(ms, NewFixture(Len(ms) + 1, comp, e))

\* server.js:1195-1209 DELETE /api/matches/:id: the first fixture of that id
deleteMatch(ms, id) ==
    LET idx == FirstIndex(ms, {i \in DOMAIN ms : ms[i].id = id})
    IN IF idx = 0 THEN ms
       ELSE SubSeq(ms, 1, idx - 1) \o SubSeq(ms, idx + 1, Len(ms))

\* part_008:229-267 DELETE /api/competitions/:id: its fixtures go with it
deleteCompetition008(ms, comp) == SelectSeq(ms, LAMBDA m : m.competitionId # comp)

\* server.js:705-721 DELETE /api/competitions/:id: matches.json is not touched
deleteCompetitionServer(ms, comp) == ms

InitIds ==
    /\ matches = <<>>
    /\ predictions = <<>>
    /\ importer \in IdBuilds
    /\ reconciler = "cjs"
    /\ last = NoLast
    /\ pc = [p \in Procs |-> "idle"]
    /\ loc = [p \in Procs |-> IdleLoc]
    /\ scorer = "none"
    /\ arg = <<>>
    /\ res = <<>>
    /\ now = 0

AddMatch(comp, e) ==
    /\ Len(matches) < MaxStore
    /\ matches' = IF importer = "p008" THEN addMatch008(matches, comp, e)
                  ELSE addMatchServer(matches, comp, e)
    /\ IdsCapped(matches')
    /\ last' = Observed("add", comp, 1, {}, 0, <<>>)
    /\ UNCHANGED <<predictions, importer, reconciler, pc, loc, scorer, arg, res, now>>

DeleteMatch(id) ==
    /\ importer # "p008"
    /\ matches' = deleteMatch(matches, id)
    /\ last' = Observed("deleteMatch", 0, 0, {}, 0, <<>>)
    /\ UNCHANGED <<predictions, importer, reconciler, pc, loc, scorer, arg, res, now>>

DeleteCompetition(comp) ==
    /\ matches' = IF importer = "p008" THEN deleteCompetition008(matches, comp)
                  ELSE deleteCompetitionServer(matches, comp)
    /\ last' = Observed("deleteCompetition", comp, 0, {}, 0, <<>>)
    /\ UNCHANGED <<predictions, importer, reconciler, pc, loc, scorer, arg, res, now>>

NextIds ==
    \/ \E comp \in IdComps, feed \in IdFeeds :
          \E ids \in [DOMAIN feed -> Ids] : Import(comp, feed, ids) /\ IdsCapped(matches')
    \/ \E comp \in IdComps, e \in IdEntries : AddMatch(comp, e)
    \/ \E id \in IdsOf(matches) : DeleteMatch(id)
    \/ \E comp \in IdComps : DeleteCompetition(comp)

SpecIds == InitIds /\ [][NextIds]_vars

----------------------------------------------------------------------------
(* Properties of the reconciler and the importer *)

\* what the files hold once a run has ended
MatchesAfter(out, ms) == IF out.wrote THEN out.matches ELSE ms
PredictionsAfter(out, ps) == IF out.wrote THEN out.predictions ELSE ps

HasResult(m) == m.result.winner # Null

\* C1: running the reconciler twice in succession on the same scraped records
\* leaves the store as the first run left it, and the second run reports an
\* updated count of 0.
C1_SecondReconcileIsNoOp ==
    \A rows \in Scrapes :
        LET o1 == Reconcile(reconciler, matches, predictions, rows)
            m1 == MatchesAfter(o1, matches)
            p1 == PredictionsAfter(o1, predictions)
            o2 == Reconcile(reconciler, m1, p1, rows)
        IN /\ MatchesAfter(o2, m1) = m1
           /\ PredictionsAfter(o2, p1) = p1
           /\ o2.updated = 0

\* C2: a reconcile run never removes or changes the result of a fixture that
\* already carries one.
C2_ResultImmutable ==
    [][last'.op = "reconcile" =>
          \A i \in DOMAIN matches :
              HasResult(matches[i]) =>
                  /\ i \in DOMAIN matches'
                  /\ matches'[i].result = matches[i].result]_vars

\* C3: re-importing a competition leaves the result, teamA and teamB of every
\* fixture already stored for it unchanged.
C3_ImportKeepsStoredFixtures ==
    [][last'.op = "import" =>
          \A i \in DOMAIN matches :
              matches[i].competitionId = last'.comp =>
                  \E j \in DOMAIN matches' :
                      /\ matches'[j].id = matches[i].id
                      /\ matches'[j].competitionId = matches[i].competitionId
                      /\ matches'[j].teamA = matches[i].teamA
                      /\ matches'[j].teamB = matches[i].teamB
                      /\ matches'[j].result = matches[i].result]_vars

\* the dedup identity of the importer: same competition, same unordered pair
\* of teams, kickoffs less than the tolerance apart
SameIdentity(a, b) ==
    /\ a.competitionId = b.competitionId
    /\ {a.teamA, a.teamB} = {b.teamA, b.teamB}
    /\ AbsDiff(a.kickoff, b.kickoff) < DedupToleranceHours

\* C4: no two stored fixtures share the same competition, the same unordered
\* pair of teams and kickoffs within the 48-hour tolerance.
C4_NoTwoFixturesShareIdentity ==
    \A i, j \in DOMAIN matches : i # j => ~SameIdentity(matches[i], matches[j])

\* C5: importing the same feed a second time, with nothing in between, reports
\* added = 0 and leaves the number of stored fixtures unchanged.
C5_SecondImportAddsNothing ==
    \A comp \in Comps, feed \in Feeds :
        \A ids1, ids2 \in [DOMAIN feed -> Ids] :
            LET o1 == ImportFeed(importer, matches, comp, feed, ids1)
                m1 == MatchesAfter(o1, matches)
                o2 == ImportFeed(importer, m1, comp, feed, ids2)
            IN /\ ReportedAdded(importer, o2) = 0
               /\ Len(MatchesAfter(o2, m1)) = Len(m1)

\* the same scraped row with home and away, and their scores, exchanged
Swapped(row) == [date |-> row.date, t1 |-> row.t2, t2 |-> row.t1, s1 |-> row.s2, s2 |-> row.s1]

\* C6: a scraped record and the same record with home and away swapped reach
\* the same fixture and attach the same winner and margin.
C6_SwappedRecordSameOutcome ==
    \A row \in ScrapeRows :
        LET o1 == Reconcile(reconciler, matches, predictions, <<row>>)
            o2 == Reconcile(reconciler, matches, predictions, <<Swapped(row)>>)
        IN MatchesAfter(o1, matches) = MatchesAfter(o2, matches)

\* C9: every stored fixture has either no result, or a result whose winner is
\* its teamA, its teamB or null (a draw) and whose margin is a non-negative
\* integer.
C9_ResultWellFormed ==
    \A i \in DOMAIN matches :
        \/ matches[i].result = NoResult
        \/ /\ matches[i].result.winner \in {matches[i].teamA, matches[i].teamB, Null}
           /\ matches[i].result.margin \in Nat

Tier(p, result) ==
    IF normalizeTeam(PickedWinner(p)) # normalizeTeam(result.winner) THEN "wrong"
    ELSE IF p.margin = result.margin THEN "exact" ELSE "correct"

Rated(i) == {j \in DOMAIN predictions :
                predictions[j].matchId = matches[i].id /\ predictions[j].points # NullNum}

Sequential(rows1, rows2) ==
    LET o1 == updateResultsFromSourcesCJS(RaceStore, InitPredictions, Scraped("cjs", rows1))
        m1 == MatchesAfter(o1, RaceStore)
        p1 == PredictionsAfter(o1, InitPredictions)
        o2 == updateResultsFromSourcesCJS(m1, p1, Scraped("cjs", rows2))
    IN MatchesAfter(o2, m1)

\* C8: two overlapping reconcile invocations, in any interleaving of their
\* load, fetch, update and persist steps, end in the fixture store that
\* running the two one after the other ends in.
C8_OverlapEqualsSequential ==
    (\A p \in Procs : pc[p] = "done") =>
        matches \in {Sequential(loc["admin"].rows, loc["cron"].rows),
                     Sequential(loc["cron"].rows, loc["admin"].rows)}

\* a page is fetched when a domain the generation asks answers
Answered(page) == page.couk \/ (reconciler = "cjs" /\ page.com)

\* the dates of the window, in order, whose page was answered
AnsweredDates(pages) == SelectSeq([i \in DOMAIN pages |-> i], LAMBDA i : Answered(pages[i]))

RECURSIVE RowsOfDates(_, _)
RowsOfDates(pages, dates) ==
    IF dates = <<>> THEN <<>>
    ELSE pages[Head(dates)].rows \o RowsOfDates(pages, Tail(dates))

\* C11: in a windowed scrape a date whose page cannot be fetched gives no
\* results and does not stop the run: the rows of every other date of the
\* window are gathered and the reconcile run is the run on exactly those rows.
C11_FailedDateIsSkipped ==
    [][last'.op = "window" =>
          LET rows == RowsOfDates(arg', AnsweredDates(arg'))
              out == Reconcile(reconciler, matches, predictions, rows)
          IN /\ res' = rows
             /\ matches' = MatchesAfter(out, matches)
             /\ last'.ret = out.updated]_vars

C11_LaterDateAttachedAfterFailure ==
    /\ last.op = "window"
    /\ last.ret > 0
    /\ \E i, j \in DOMAIN arg :
          /\ i < j
          /\ ~Answered(arg[i])
          /\ arg[i].rows # <<>>
          /\ Answered(arg[j])
          /\ arg[j].rows # <<>>
    /\ \E k \in DOMAIN matches : HasResult(matches[k])

\* C12: neither an import or re-import nor a reconcile run removes a fixture:
\* every fixture id in the store before the operation is in it afterwards.
C12_NoFixtureRemoved ==
    [][last'.op \in {"import", "reconcile"} => IdsOf(matches) \subseteq IdsOf(matches')]_vars

\* what the user chose in a prediction, without the points
PickOf(p) == [userId |-> p.userId, matchId |-> p.matchId, winner |-> p.winner,
              predictedWinner |-> p.predictedWinner, margin |-> p.margin]

PicksOf(ps) == {PickOf(ps[i]) : i \in DOMAIN ps}

KickoffNotPassed(mid) == \E i \in DOMAIN matches : matches[i].id = mid /\ now <= matches[i].kickoff

\* C13: a prediction is created only before its fixture's kickoff and only
\* its points change afterwards: no step adds, removes or alters a pick for
\* a fixture whose kickoff has passed.
C13_PicksLockedAtKickoff ==
    [][\A q \in (PicksOf(predictions') \ PicksOf(predictions))
                   \cup (PicksOf(predictions) \ PicksOf(predictions')) :
           KickoffNotPassed(q.matchId)]_vars

\* C14: normalization is idempotent: cleaning a cleaned title, or resolving
\* a resolved name against the same alias table, gives it back unchanged.
C14_NormalizeIdempotent ==
    /\ last.op = "cleanTeamText" => cleanTeamText(res) = res
    /\ last.op = "cleanTeamTextUtils" => cleanTeamTextUtils(res) = res
    /\ last.op = "normalizeTeamName" => normalizeTeamNameOver(arg.table, Trim(res), 1) = res

OfficialsNamed(table, name) ==
    {table[k].official : k \in {j \in DOMAIN table : ToLowerCase(table[j].official) = ToLowerCase(name)}}

OfficialsAliased(table, name) ==
    {table[k].official : k \in {j \in DOMAIN table :
        \E a \in SeqToSet(table[j].aliases) : ToLowerCase(a) = ToLowerCase(name)}}

\* C15: alias resolution returns the canonical name the input equals, case
\* aside, even when the same spelling is an alias of another canonical name;
\* failing that the canonical name of an alias it equals; failing that the
\* input itself.
C15_CanonicalBeforeAlias ==
    last.op = "normalizeTeamName" =>
        LET name == Trim(arg.text)
        IN IF OfficialsNamed(arg.table, name) # {} THEN res \in OfficialsNamed(arg.table, name)
           ELSE IF OfficialsAliased(arg.table, name) # {} THEN res \in OfficialsAliased(arg.table, name)
           ELSE res = name

\* the pick a prediction carries, whichever field its route stored it in
PickIn(p) == IF Truthy(p.predictedWinner) THEN p.predictedWinner
             ELSE IF Truthy(p.winner) THEN p.winner ELSE Null

\* C16: once a recalculation has run over a fixture whose result is a draw
\* (winner null, margin 0), a prediction of that fixture with no pick has the
\* correct-winner tier, more than 0 points, and every other prediction of it
\* has none: 0, or still unset.
C16_DrawRatedByNullPick ==
    last.op = "recalc" =>
        \A i \in DOMAIN matches : \A j \in DOMAIN predictions :
            (matches[i].result = DrawResult /\ predictions[j].matchId = matches[i].id) =>
                IF PickIn(predictions[j]) = Null
                THEN predictions[j].points > 0
                ELSE predictions[j].points \in {0, NullNum}

\* the recalculation that has just answered, run once more on what it left
RecalcAgain ==
    CASE scorer = "recalcLeaderboard" -> recalcLeaderboard(matches, predictions)
      [] scorer = "recalcLeaderboardTotals" -> recalcLeaderboardTotals(matches, predictions)
      [] scorer = "recalcPointsForMatch" ->
            Recalculated(recalcPointsForMatch(arg[1], matches, predictions), 0, <<>>)
      [] OTHER ->
            Recalculated(recalcAllMatches(matches, predictions, arg, now).predictions, 0, <<>>)

SamePair(m, row) == sameTeams(m.teamA, m.teamB, row.t1, row.t2)
InWindow(m, row) == AbsDiff(m.kickoff, row.date) <= ScrapeToleranceHours
Candidates(ms, row) == {i \in DOMAIN ms : SamePair(ms[i], row) /\ InWindow(ms[i], row)}

\* the fixtures after a reconcile run on the one row
AfterRow(row) == MatchesAfter(Reconcile(reconciler, matches, predictions, <<row>>), matches)

\* C18: a scraped row with two equal scores that matches exactly one stored
\* fixture, which has no result, makes the reconcile run attach the result
\* {winner: null, margin: 0} to that fixture.
C18_DrawIsAttached ==
    \A row \in ScrapeRows :
        (/\ row.s1 = row.s2
         /\ Cardinality(Candidates(matches, row)) = 1
         /\ \A i \in Candidates(matches, row) : matches[i].result = NoResult) =>
            \A i \in Candidates(matches, row) : AfterRow(row)[i].result = DrawResult

\* C19: a reconcile run changes the result only of a fixture whose kickoff is
\* within the tolerance of the scraped row's page date: a fixture of the same
\* two teams with a kickoff outside it keeps the result it had.
C19_OnlyWithinWindow ==
    \A row \in ScrapeRows :
        \A i \in DOMAIN matches :
            (SamePair(matches[i], row) /\ ~InWindow(matches[i], row)) =>
                AfterRow(row)[i].result = matches[i].result

\* the candidates whose kickoff is nearest the page's date
Nearest(ms, row) ==
    {i \in Candidates(ms, row) :
        \A k \in Candidates(ms, row) :
            AbsDiff(ms[i].kickoff, row.date) <= AbsDiff(ms[k].kickoff, row.date)}

\* C20: when a scraped row with a winner has several candidate fixtures, none
\* with a result, the reconcile run changes exactly one of them, one whose
\* kickoff is nearest the page's date, and no other candidate.
C20_NearestKickoffOnly ==
    \A row \in ScrapeRows :
        (/\ row.s1 # row.s2
         /\ Cardinality(Candidates(matches, row)) > 1
         /\ \A i \in Candidates(matches, row) : matches[i].result = NoResult) =>
            LET changed == {i \in Candidates(matches, row) : AfterRow(row)[i] # matches[i]}
            IN Cardinality(changed) = 1 /\ changed \subseteq Nearest(matches, row)

\* a title of the form X vs Y, which every generation splits, with a start
\* that is a time
WellFormed(ev) ==
    /\ ev.start \notin {NullNum, InvalidDate}
    /\ Len(SplitOn(ev.summary, <<SepVs>>, FALSE)) = 2
    /\ ev.summary # TBC \o SepVs \o TBC

\* no start, a start that is no time, or a title without vs, vs. or v between
\* two sides
Malformed(ev) ==
    \/ ev.start \in {NullNum, InvalidDate}
    \/ Len(SplitOn(ev.summary, <<SepVsDot, SepVs, SepV>>, TRUE)) < 2

\* the store holds a fixture of the competition for the two sides of ev
Upserted(ms, comp, ev) ==
    LET sides == SplitOn(ev.summary, <<SepVs>>, FALSE)
    IN \E i \in DOMAIN ms :
          /\ ms[i].competitionId = comp
          /\ {ms[i].teamA, ms[i].teamB} = {sides[1], sides[2]}
          /\ ms[i].kickoff # NullNum
          /\ AbsDiff(ms[i].kickoff, ev.start) < DedupToleranceHours

\* C21: after a calendar import whose feed holds a malformed entry (no start,
\* an invalid start, a title that does not split), the store has been
\* persisted and holds a fixture for every well-formed entry of the feed
C21_MalformedEntryIsolated ==
    (last.op = "calendar" /\ \E i \in DOMAIN arg : Malformed(arg[i]))
        => /\ res = <<TRUE>>
           /\ \A i \in DOMAIN arg : WellFormed(arg[i]) => Upserted(matches, last.comp, arg[i])

\* a title that does not split on vs, vs. or v, or whose sides are both the
\* placeholder
Unusable(ev) ==
    LET sides == SplitOn(ev.summary, <<SepVsDot, SepVs, SepV>>, TRUE)
    IN \/ ~Truthy(Piece(sides, 1)) \/ ~Truthy(Piece(sides, 2))
       \/ ToLowerCase(Trim(sides[1])) = ToLowerCase(TBC) /\ ToLowerCase(Trim(sides[2])) = ToLowerCase(TBC)

\* C25: a calendar import whose entries all have a title that does not split
\* into two teams, or two placeholder sides, stores no fixture that was not
\* stored before
C25_UnusableTitleNeverStored ==
    [][ (last'.op = "calendar" /\ \A i \in DOMAIN arg' : Unusable(arg'[i]))
            => \A i \in DOMAIN matches' : \E j \in DOMAIN matches : matches'[i] = matches[j] ]_vars

\* C22: of a row with two final scores the derived winner is the side with the
\* strictly higher score, null when the scores are equal, and the derived
\* margin is the absolute difference of the scores
C22_WinnerAndMarginOfScores ==
    last.op = "derive" =>
        LET row == arg[1]
            rec == res[1]
        IN /\ row.s1 > row.s2 => rec.winner = rec.teamA
           /\ row.s2 > row.s1 => rec.winner = rec.teamB
           /\ row.s1 = row.s2 => rec.winner = Null
           /\ rec.margin = AbsDiff(row.s1, row.s2)

\* the step of a reconcile run: the predictions of every fixture that received
\* a result carry points, the predictions of fixtures without a result are
\* as they were
ScoredOnAttach ==
    last'.op = "reconcile" =>
        /\ \A i \in DOMAIN matches :
              matches'[i].result # matches[i].result =>
                  \A j \in DOMAIN predictions' :
                      predictions'[j].matchId = matches[i].id => predictions'[j].points # NullNum
        /\ \A j \in DOMAIN predictions :
              (\A i \in DOMAIN matches' :
                  matches'[i].id = predictions[j].matchId => matches'[i].result = NoResult)
                  => predictions'[j] = predictions[j]

\* C23: whenever a reconcile run attaches a result to a fixture, at the end of
\* the run every prediction of that fixture has its points set, and no
\* prediction of a fixture without a result has changed
C23_AttachedMeansScored == [][ScoredOnAttach]_vars

\* C24: in a windowed pass every date of the window is asked for with exactly
\* one request: no date is left out and none is asked for a second time
C24_OneRequestPerDate ==
    last.op = "window" =>
        \A i \in DOMAIN arg : Cardinality({q \in last.hit : q[1] = i}) = 1

\* lowercase, everything but letters and digits removed
matchKey(name) == Keep(ToLowerCase(StrOrEmpty(name)), LowerAZ \cup Digits)

\* each scraped team has the key of a side of its own
KeysPair(m, row) ==
    \/ matchKey(row.t1) = matchKey(m.teamA) /\ matchKey(row.t2) = matchKey(m.teamB)
    \/ matchKey(row.t1) = matchKey(m.teamB) /\ matchKey(row.t2) = matchKey(m.teamA)

\* C26: a scraped row is taken for a fixture only when each of its teams has
\* the matchKey of a side of the fixture, one side each: names whose keys
\* differ are not matched and one side does not serve both teams
C26_MatchedOnlyByMatchKey ==
    (last.op = "lookup" /\ res = <<TRUE>>) => KeysPair(arg[1], arg[2])

\* every pick stored before the step is stored after it
PicksKept == \A j \in DOMAIN predictions : PickOf(predictions[j]) \in PicksOf(predictions')

KeptOnFailedRead == (last'.op = "standalone" /\ arg' = <<FALSE>>) => PicksKept

\* C27: a reconcile run whose read of predictions.json fails, while
\* matches.json is read, leaves every stored prediction in predictions.json
C27_FailedReadKeepsPredictions == [][KeptOnFailedRead]_vars

\* the phases of a run between its read of predictions.json and its last write
BetweenLoadAndWrite == {"readPredictions", "updated", "wroteMatches"}

\* C28: a prediction saved while the reconcile run was between its read of
\* predictions.json and its final write is in predictions.json once the run
\* has finished
C28_SavedDuringRunSurvives ==
    (pc["cron"] = "done" /\ last.op = "save" /\ res[1] \in BetweenLoadAndWrite)
        => PickOf(arg[1]) \in PicksOf(predictions)

\* C29: whatever imports, refreshes, manual additions and deletions have run,
\* no two stored fixtures have the same id
C29_FixtureIdsUnique ==
    \A i, j \in DOMAIN matches : i # j => matches[i].id # matches[j].id

\* the stored predictions once recalcPointsForMatch has gone over every fixture
RECURSIVE RecalcEvery(_, _, _)
RecalcEvery(ids, ms, ps) ==
    IF ids = {} THEN ps
    ELSE LET id == CHOOSE x \in ids : TRUE
         IN RecalcEvery(ids \ {id}, ms, recalcPointsForMatch(id, ms, ps))

\* C30: the points a reconcile run writes as it attaches a result are the
\* points the recalculation computes: a recalculation right after the run
\* changes no prediction
C30_ReconcilePointsAreRecalcPoints ==
    last.op = "reconcile" => RecalcEvery(IdsOf(matches), matches, predictions) = predictions

====
